---- MODULE Spec2Model ----
(***************************************************************************)
(* Model of the control-engine ritual execution core: the SymbolicState    *)
(* mutators and the ArchetypalState conversions of src/src/state.rs,       *)
(* Ritual::execute with its native handlers and resonance scoring of       *)
(* src/src/ritual.rs, the execute_ritual request handler of                *)
(* src/src/handlers.rs, and CodexEngine of src/src/engine.rs.              *)
(*                                                                         *)
(* f64 quantities (activation_level, amplitude, frequency, magnitudes,     *)
(* resonance) are modelled as exact rationals [n, d] in lowest terms, so   *)
(* 0.3, 0.9 and 7.83 and every mean are computed without rounding.         *)
(* Timestamps (Utc::now()) are read from a logical clock.                  *)
(*                                                                         *)
(* The specifications:                                                     *)
(*   Spec        mutators and rituals on a state built from new()          *)
(*   SpecState   the mutators alone, with time passing between calls       *)
(*   SpecRitual  one execute call on each of a set of prepared states      *)
(*   SpecValues  one modulate or deepen call on an energy or integration   *)
(*   SpecConvert the conversion to ArchetypalState and back                *)
(*   SpecServer  two execute_ritual requests of one practitioner           *)
(*   SpecEngine  a CodexEngine running its foundational rituals            *)
(*   SpecCustom  a CodexEngine with custom rituals added                   *)
(*   SpecAttune  a CodexEngine attuning a loaded state again and again     *)
(***************************************************************************)
EXTENDS Integers, Sequences, FiniteSets, TLC

VARIABLES state, clock, last, pre, begun, completed, db, requests

vars == <<state, clock, last, pre, begun, completed, db, requests>>

(***************************************************************************)
(* Bounds of the exploration.                                              *)
(***************************************************************************)
MaxBegun == 2
MaxSymbols == 1
MaxInvoke == 1
MaxClock == 1
MaxReq == 1
MaxRituals == 4

(***************************************************************************)
(* Exact rational arithmetic standing for f64.                             *)
(***************************************************************************)
RECURSIVE GCD(_, _)
GCD(a, b) == IF b = 0 THEN a ELSE GCD(b, a % b)

Abs(x) == IF x < 0 THEN -x ELSE x

R(n, d) ==
    LET g == GCD(Abs(n), d)
    IN  IF n = 0 THEN [n |-> 0, d |-> 1] ELSE [n |-> n \div g, d |-> d \div g]

LCM(a, b) == (a \div GCD(a, b)) * b

\* numerators of a and b over their least common denominator
Over(a, b) == a.n * (LCM(a.d, b.d) \div a.d)

RAdd(a, b) == R(Over(a, b) + Over(b, a), LCM(a.d, b.d))
RSub(a, b) == R(Over(a, b) - Over(b, a), LCM(a.d, b.d))
RMul(a, b) ==
    LET g1 == GCD(Abs(a.n), b.d)
        g2 == GCD(Abs(b.n), a.d)
    IN  IF a.n = 0 \/ b.n = 0
        THEN R(0, 1)
        ELSE R((a.n \div g1) * (b.n \div g2), (a.d \div g2) * (b.d \div g1))
RDivInt(a, k) == RMul(a, R(1, k))
RLt(a, b) == Over(a, b) < Over(b, a)
RLe(a, b) == Over(a, b) <= Over(b, a)
RMin(a, b) == IF RLt(b, a) THEN b ELSE a
RMax(a, b) == IF RLt(a, b) THEN b ELSE a
RAbs(a) == [n |-> Abs(a.n), d |-> a.d]
RClamp(a, lo, hi) == RMin(RMax(a, lo), hi)

Zero == R(0, 1)
One == R(1, 1)

RECURSIVE RSum(_)
RSum(seq) == IF seq = <<>> THEN Zero ELSE RAdd(Head(seq), RSum(Tail(seq)))

(***************************************************************************)
(* Sequence and map helpers (Vec and HashMap of the source).               *)
(***************************************************************************)
Position(seq, x) ==
    IF \E i \in 1..Len(seq) : seq[i] = x
    THEN CHOOSE i \in 1..Len(seq) : seq[i] = x /\ \A j \in 1..(i - 1) : seq[j] # x
    ELSE 0

Remove(seq, pos) == SubSeq(seq, 1, pos - 1) \o SubSeq(seq, pos + 1, Len(seq))

Insert(map, key, value) ==
    [k \in (DOMAIN map) \cup {key} |-> IF k = key THEN value ELSE map[k]]

EmptyMap == [k \in {} |-> 0]

\* the orders in which a HashMap with key set S can be iterated
Orders(S) ==
    {seq \in [1..Cardinality(S) -> S] : \A i, j \in 1..Cardinality(S) : i # j => seq[i] # seq[j]}

(***************************************************************************)
(* state.rs: Archetype, Energy, Integration                                *)
(***************************************************************************)
Archetype_new(name) ==
    [name |-> name, activation_level |-> Zero, shadow_aspects |-> <<>>,
     light_aspects |-> <<>>, evolution_count |-> 0]

invoke(archetype, intensity) ==
    [archetype EXCEPT !.activation_level = RMin(RAdd(@, intensity), One),
                      !.evolution_count = @ + 1]

integrate_aspect(archetype, aspect, is_shadow) ==
    IF is_shadow
    THEN [archetype EXCEPT !.shadow_aspects = Append(@, aspect)]
    ELSE [archetype EXCEPT !.light_aspects = Append(@, aspect)]

Energy_new(name, frequency) ==
    [name |-> name, frequency |-> frequency, amplitude |-> R(1, 2)]

\* variant: the amplitude is shifted without the clamp
modulate_unclamped(energy, frequency_shift, amplitude_shift) ==
    [energy EXCEPT !.frequency = RAdd(@, frequency_shift),
                   !.amplitude = RAdd(@, amplitude_shift)]

modulate(energy, frequency_shift, amplitude_shift) ==
    [energy EXCEPT !.frequency = RAdd(@, frequency_shift),
                   !.amplitude = RClamp(RAdd(@, amplitude_shift), Zero, One)]

Integration_new(name) == [name |-> name, depth_level |-> 1]

\* depth_level and levels are u8: the sum is computed in 8 bits.  A sum
\* above 255 panics where overflow checks are compiled in (the debug
\* profile) and wraps modulo 2^8 where they are not (the release profile).
U8 == 256
Builds == {"debug", "release"}

deepen(integration, levels, build) ==
    LET sum == integration.depth_level + levels
        wrapped == sum % U8
    IN  IF sum >= U8 /\ build = "debug"
        THEN [panicked |-> TRUE, integration |-> integration]
        ELSE [panicked |-> FALSE,
              integration |-> [integration EXCEPT
                                 !.depth_level = IF wrapped < 10 THEN wrapped ELSE 10]]

(***************************************************************************)
(* state.rs: ArchetypalState, the simplified form of the state that the    *)
(* web API stores: activation per archetype name, amplitude per energy     *)
(* name, the integration names, the symbols and the transformations.       *)
(***************************************************************************)
ArchetypalState(archetypes, energies, integrations, symbols, transformations) ==
    [archetypes |-> archetypes, energies |-> energies, integrations |-> integrations,
     symbols |-> symbols, transformations |-> transformations]

ArchetypalState_new ==
    ArchetypalState(
        [k \in {"Sage", "Shadow", "Anima", "Creator"} |-> R(1, 10)],
        [k \in {"Fire", "Water", "Earth", "Air", "Void"} |->
            IF k = "Void" THEN R(2, 10) ELSE R(3, 10)],
        <<>>, <<>>, <<>>)

\* variant: the energies are recorded by frequency
from_symbolic_state_by_frequency(symbolic, order_i) ==
    ArchetypalState(
        [k \in DOMAIN symbolic.archetypes |-> symbolic.archetypes[k].activation_level],
        [k \in DOMAIN symbolic.energies |-> symbolic.energies[k].frequency],
        order_i,
        symbolic.unresolved_symbols,
        symbolic.active_transformations)

\* order_i is the order in which integrations.keys() yields the names
from_symbolic_state(symbolic, order_i) ==
    ArchetypalState(
        [k \in DOMAIN symbolic.archetypes |-> symbolic.archetypes[k].activation_level],
        [k \in DOMAIN symbolic.energies |-> symbolic.energies[k].amplitude],
        order_i,
        symbolic.unresolved_symbols,
        symbolic.active_transformations)

(***************************************************************************)
(* state.rs: SymbolicState and its mutators.  now is the value Utc::now()  *)
(* returns during the call.                                                *)
(***************************************************************************)
SymbolicState_new(now) ==
    [archetypes |-> EmptyMap, energies |-> EmptyMap, integrations |-> EmptyMap,
     unresolved_symbols |-> <<>>, active_transformations |-> <<>>,
     last_updated |-> now, evolution_cycle |-> 0]

mark_updated(s, now) == [s EXCEPT !.last_updated = now]

add_archetype(s, archetype, now) ==
    mark_updated([s EXCEPT !.archetypes = Insert(@, archetype.name, archetype)], now)

add_energy(s, energy, now) ==
    mark_updated([s EXCEPT !.energies = Insert(@, energy.name, energy)], now)

add_integration(s, integration, now) ==
    mark_updated([s EXCEPT !.integrations = Insert(@, integration.name, integration)], now)

add_unresolved_symbol(s, symbol, now) ==
    mark_updated([s EXCEPT !.unresolved_symbols = Append(@, symbol)], now)

resolve_symbol(s, symbol, now) ==
    LET pos == Position(s.unresolved_symbols, symbol)
    IN  IF pos # 0
        THEN [state |-> mark_updated([s EXCEPT !.unresolved_symbols = Remove(@, pos)], now),
              ret |-> TRUE]
        ELSE [state |-> s, ret |-> FALSE]

\* variant: the cycle is counted when a transformation begins
begin_transformation_counting(s, transformation, now) ==
    mark_updated([s EXCEPT !.active_transformations = Append(@, transformation),
                           !.evolution_cycle = @ + 1], now)

begin_transformation(s, transformation, now) ==
    mark_updated([s EXCEPT !.active_transformations = Append(@, transformation)], now)

\* variant: the timestamp is refreshed whether or not the label was found
complete_transformation_touching(s, transformation, now) ==
    LET pos == Position(s.active_transformations, transformation)
    IN  IF pos # 0
        THEN [state |-> mark_updated([s EXCEPT !.active_transformations = Remove(@, pos),
                                               !.evolution_cycle = @ + 1], now),
              ret |-> TRUE]
        ELSE [state |-> mark_updated(s, now), ret |-> FALSE]

\* variant: the label is found but left in the list
complete_transformation_keeping(s, transformation, now) ==
    LET pos == Position(s.active_transformations, transformation)
    IN  IF pos # 0
        THEN [state |-> mark_updated([s EXCEPT !.evolution_cycle = @ + 1], now),
              ret |-> TRUE]
        ELSE [state |-> s, ret |-> FALSE]

complete_transformation(s, transformation, now) ==
    LET pos == Position(s.active_transformations, transformation)
    IN  IF pos # 0
        THEN [state |-> mark_updated([s EXCEPT !.active_transformations = Remove(@, pos),
                                               !.evolution_cycle = @ + 1], now),
              ret |-> TRUE]
        ELSE [state |-> s, ret |-> FALSE]

\* every entry is rebuilt from its name by the constructor: the activation
\* level and the amplitude are the only fields taken from the stored form
to_symbolic_state(archetypal, now) ==
    LET fresh == SymbolicState_new(now)
        archetype(name) ==
            [Archetype_new(name) EXCEPT !.activation_level = archetypal.archetypes[name]]
        energy(name) ==
            [Energy_new(name, R(440, 1)) EXCEPT !.amplitude = archetypal.energies[name]]
    IN  [fresh EXCEPT
            !.archetypes = [k \in DOMAIN archetypal.archetypes |-> archetype(k)],
            !.energies = [k \in DOMAIN archetypal.energies |-> energy(k)],
            !.integrations =
                [k \in {archetypal.integrations[i] : i \in DOMAIN archetypal.integrations} |->
                    Integration_new(k)],
            !.unresolved_symbols = archetypal.symbols,
            !.active_transformations = archetypal.transformations]

(***************************************************************************)
(* ritual.rs: RitualResult, StateChange, RitualDefinition, Ritual          *)
(***************************************************************************)
Status(tag, reason) == [tag |-> tag, reason |-> reason]

StateChange(change_type, description, magnitude) ==
    [change_type |-> change_type, description |-> description, magnitude |-> magnitude]

NoHandler == "<None>"
NoPath == "<None>"
NoModule == [kind |-> "none", code |-> 0]

\* a definition with the given name, required archetypes and handler; the
\* other fields are empty and are set with EXCEPT where a definition has them
RitualDefinition(name, required_archetypes, native_handler) ==
    [name |-> name, description |-> "", intent |-> "",
     required_archetypes |-> required_archetypes, energy_requirements |-> EmptyMap,
     wasm_module_path |-> NoPath, native_handler |-> native_handler,
     parameters |-> EmptyMap]

\* Ritual::new leaves wasm_module None; load_wasm_module* sets it
Ritual(definition, wasm_module) ==
    [definition |-> definition, wasm_module |-> wasm_module]

Label(name) == "ritual:" \o name

RitualResult_initial(name) ==
    [ritual_name |-> name, symbolic_outputs |-> EmptyMap, state_changes |-> <<>>,
     emergent_symbols |-> <<>>, completion_status |-> Status("Complete", ""),
     resonance_level |-> Zero]

(***************************************************************************)
(* ritual.rs: native handlers.  order is the order in which the HashMap    *)
(* is iterated.  Each returns the new state and the new result.            *)
(***************************************************************************)
\* variant: every archetype with a shadow aspect integrates one, whatever
\* its activation level
RECURSIVE shadow_loop_any_level(_, _, _, _)
shadow_loop_any_level(order, archetypes, changes, count) ==
    IF order = <<>>
    THEN [archetypes |-> archetypes, state_changes |-> changes, shadows_integrated |-> count]
    ELSE LET archetype == archetypes[Head(order)]
             aspects == archetype.shadow_aspects
         IN  IF aspects # <<>>
             THEN LET shadow == aspects[Len(aspects)]
                      popped == [archetype EXCEPT
                                    !.shadow_aspects = SubSeq(aspects, 1, Len(aspects) - 1),
                                    !.light_aspects = Append(@, "Integrated: " \o shadow)]
                  IN  shadow_loop_any_level(Tail(order),
                                  [archetypes EXCEPT ![Head(order)] = popped],
                                  Append(changes,
                                         StateChange("Integration",
                                                     <<"Integrated shadow aspect", shadow, archetype.name>>,
                                                     R(7, 10))),
                                  count + 1)
             ELSE shadow_loop_any_level(Tail(order), archetypes, changes, count)

RECURSIVE shadow_loop(_, _, _, _)
shadow_loop(order, archetypes, changes, count) ==
    IF order = <<>>
    THEN [archetypes |-> archetypes, state_changes |-> changes, shadows_integrated |-> count]
    ELSE LET archetype == archetypes[Head(order)]
             aspects == archetype.shadow_aspects
         IN  IF aspects # <<>> /\ RLt(R(1, 2), archetype.activation_level)
             THEN LET shadow == aspects[Len(aspects)]
                      popped == [archetype EXCEPT
                                    !.shadow_aspects = SubSeq(aspects, 1, Len(aspects) - 1),
                                    !.light_aspects = Append(@, "Integrated: " \o shadow)]
                  IN  shadow_loop(Tail(order),
                                  [archetypes EXCEPT ![Head(order)] = popped],
                                  Append(changes,
                                         StateChange("Integration",
                                                     <<"Integrated shadow aspect", shadow, archetype.name>>,
                                                     R(7, 10))),
                                  count + 1)
             ELSE shadow_loop(Tail(order), archetypes, changes, count)

shadow_integration_ritual(def, s, result, order, now) ==
    LET loop == shadow_loop(order, s.archetypes, result.state_changes, 0)
    IN  [state |-> [s EXCEPT !.archetypes = loop.archetypes],
         result |-> [result EXCEPT
                        !.state_changes = loop.state_changes,
                        !.symbolic_outputs = Insert(@, "shadows_integrated", loop.shadows_integrated),
                        !.emergent_symbols = IF loop.shadows_integrated > 0
                                             THEN @ \o <<"shadow_to_light", "integration">>
                                             ELSE @]]

target_frequency == R(783, 100)

\* variant: an energy away from the target is set onto the target
RECURSIVE attune_loop_onto_target(_, _, _, _)
attune_loop_onto_target(order, energies, changes, count) ==
    IF order = <<>>
    THEN [energies |-> energies, state_changes |-> changes, energies_attuned |-> count]
    ELSE LET energy == energies[Head(order)]
             frequency_diff == RAbs(RSub(energy.frequency, target_frequency))
         IN  IF RLt(One, frequency_diff)
             THEN attune_loop_onto_target(Tail(order),
                              [energies EXCEPT ![Head(order)] =
                                  modulate(energy,
                                           RSub(target_frequency, energy.frequency),
                                           R(1, 10))],
                              Append(changes,
                                     StateChange("EnergyShift",
                                                 <<"Attuned to harmonic frequency", energy.name>>,
                                                 R(1, 2))),
                              count + 1)
             ELSE attune_loop_onto_target(Tail(order), energies, changes, count)

\* variant: the step is twice the gap, which carries the energy to the
\* other side of the target
RECURSIVE attune_loop_overshooting(_, _, _, _)
attune_loop_overshooting(order, energies, changes, count) ==
    IF order = <<>>
    THEN [energies |-> energies, state_changes |-> changes, energies_attuned |-> count]
    ELSE LET energy == energies[Head(order)]
             frequency_diff == RAbs(RSub(energy.frequency, target_frequency))
         IN  IF RLt(One, frequency_diff)
             THEN attune_loop_overshooting(Tail(order),
                              [energies EXCEPT ![Head(order)] =
                                  modulate(energy,
                                           RMul(RSub(target_frequency, energy.frequency), R(2, 1)),
                                           R(1, 10))],
                              Append(changes,
                                     StateChange("EnergyShift",
                                                 <<"Attuned to harmonic frequency", energy.name>>,
                                                 R(1, 2))),
                              count + 1)
             ELSE attune_loop_overshooting(Tail(order), energies, changes, count)

\* variant: the frequency is nudged and the amplitude is left alone
RECURSIVE attune_loop_frequency_only(_, _, _, _)
attune_loop_frequency_only(order, energies, changes, count) ==
    IF order = <<>>
    THEN [energies |-> energies, state_changes |-> changes, energies_attuned |-> count]
    ELSE LET energy == energies[Head(order)]
             frequency_diff == RAbs(RSub(energy.frequency, target_frequency))
         IN  IF RLt(One, frequency_diff)
             THEN attune_loop_frequency_only(Tail(order),
                              [energies EXCEPT ![Head(order)] =
                                  modulate(energy,
                                           RMul(RSub(target_frequency, energy.frequency), R(3, 10)),
                                           Zero)],
                              Append(changes,
                                     StateChange("EnergyShift",
                                                 <<"Attuned to harmonic frequency", energy.name>>,
                                                 R(1, 2))),
                              count + 1)
             ELSE attune_loop_frequency_only(Tail(order), energies, changes, count)

RECURSIVE attune_loop(_, _, _, _)
attune_loop(order, energies, changes, count) ==
    IF order = <<>>
    THEN [energies |-> energies, state_changes |-> changes, energies_attuned |-> count]
    ELSE LET energy == energies[Head(order)]
             frequency_diff == RAbs(RSub(energy.frequency, target_frequency))
         IN  IF RLt(One, frequency_diff)
             THEN attune_loop(Tail(order),
                              [energies EXCEPT ![Head(order)] =
                                  modulate(energy,
                                           RMul(RSub(target_frequency, energy.frequency), R(3, 10)),
                                           R(1, 10))],
                              Append(changes,
                                     StateChange("EnergyShift",
                                                 <<"Attuned to harmonic frequency", energy.name>>,
                                                 R(1, 2))),
                              count + 1)
             ELSE attune_loop(Tail(order), energies, changes, count)

energy_attunement_ritual(def, s, result, order, now) ==
    LET loop == attune_loop(order, s.energies, result.state_changes, 0)
    IN  [state |-> [s EXCEPT !.energies = loop.energies],
         result |-> [result EXCEPT
                        !.state_changes = loop.state_changes,
                        !.symbolic_outputs = Insert(@, "energies_attuned", loop.energies_attuned),
                        !.emergent_symbols = IF loop.energies_attuned > 0
                                             THEN @ \o <<"harmonic_waves", "energy_transformation">>
                                             ELSE @]]

\* variant: a required archetype absent from the state is created and invoked
RECURSIVE invocation_loop_creating(_, _, _)
invocation_loop_creating(names, archetypes, changes) ==
    IF names = <<>>
    THEN [archetypes |-> archetypes, state_changes |-> changes]
    ELSE LET present == IF Head(names) \in DOMAIN archetypes
                        THEN archetypes
                        ELSE Insert(archetypes, Head(names), Archetype_new(Head(names)))
         IN  invocation_loop_creating(Tail(names),
                              [present EXCEPT ![Head(names)] = invoke(@, R(3, 10))],
                              Append(changes,
                                     StateChange("ArchetypeActivation",
                                                 <<"Invoked archetype", Head(names)>>,
                                                 R(6, 10))))

RECURSIVE invocation_loop(_, _, _)
invocation_loop(names, archetypes, changes) ==
    IF names = <<>>
    THEN [archetypes |-> archetypes, state_changes |-> changes]
    ELSE IF Head(names) \in DOMAIN archetypes
         THEN invocation_loop(Tail(names),
                              [archetypes EXCEPT ![Head(names)] = invoke(@, R(3, 10))],
                              Append(changes,
                                     StateChange("ArchetypeActivation",
                                                 <<"Invoked archetype", Head(names)>>,
                                                 R(6, 10))))
         ELSE invocation_loop(Tail(names), archetypes, changes)

archetype_invocation_ritual(def, s, result, order, now) ==
    LET loop == invocation_loop(def.required_archetypes, s.archetypes, result.state_changes)
    IN  [state |-> [s EXCEPT !.archetypes = loop.archetypes],
         result |-> [result EXCEPT
                        !.state_changes = loop.state_changes,
                        !.emergent_symbols = @ \o <<"sacred_geometry", "archetypal_invocation">>]]

\* variant: the contemplation also damps every energy's amplitude
void_contemplation_ritual_damping(def, s, result, order, now) ==
    LET s1 == add_unresolved_symbol(s, "void", now)
        contracted == [k \in DOMAIN s1.archetypes |->
                         [s1.archetypes[k] EXCEPT
                             !.activation_level = RMax(RMul(@, R(9, 10)), Zero)]]
        damped == [k \in DOMAIN s1.energies |->
                     [s1.energies[k] EXCEPT !.amplitude = RMul(@, R(9, 10))]]
    IN  [state |-> [s1 EXCEPT !.archetypes = contracted, !.energies = damped],
         result |-> [result EXCEPT
                        !.state_changes = Append(@, StateChange("Transformation",
                                                                <<"Entered contemplative void state">>,
                                                                R(8, 10))),
                        !.emergent_symbols = @ \o <<"void", "emptiness", "infinity">>]]

void_contemplation_ritual(def, s, result, order, now) ==
    LET s1 == add_unresolved_symbol(s, "void", now)
        contracted == [k \in DOMAIN s1.archetypes |->
                         [s1.archetypes[k] EXCEPT
                             !.activation_level = RMax(RMul(@, R(9, 10)), Zero)]]
    IN  [state |-> [s1 EXCEPT !.archetypes = contracted],
         result |-> [result EXCEPT
                        !.state_changes = Append(@, StateChange("Transformation",
                                                                <<"Entered contemplative void state">>,
                                                                R(8, 10))),
                        !.emergent_symbols = @ \o <<"void", "emptiness", "infinity">>]]

default_symbolic_ritual(def, s, result, order, now) ==
    LET symbol == "lozenge:" \o def.name
    IN  [state |-> add_unresolved_symbol(s, symbol, now),
         result |-> [result EXCEPT
                        !.emergent_symbols = Append(@, symbol),
                        !.state_changes = Append(@, StateChange("SymbolResolution",
                                                                <<"Generated symbolic marker for", def.name>>,
                                                                R(4, 10)))]]

\* variant: a handler name that is none of the four known ones is refused
execute_native_ritual_strict(def, s, result, order_a, order_e, now) ==
    LET known == {"shadow_integration", "energy_attunement",
                  "archetype_invocation", "void_contemplation"}
        out == CASE def.native_handler = "shadow_integration" ->
                        shadow_integration_ritual(def, s, result, order_a, now)
                 [] def.native_handler = "energy_attunement" ->
                        energy_attunement_ritual(def, s, result, order_e, now)
                 [] def.native_handler = "archetype_invocation" ->
                        archetype_invocation_ritual(def, s, result, order_a, now)
                 [] OTHER ->
                        void_contemplation_ritual(def, s, result, order_a, now)
    IN  IF def.native_handler \in known
        THEN [ok |-> TRUE, error |-> "", state |-> out.state, result |-> out.result]
        ELSE [ok |-> FALSE, error |-> "RitualNotFound", state |-> s, result |-> result]

execute_native_ritual(def, s, result, order_a, order_e, now) ==
    LET out == CASE def.native_handler = "shadow_integration" ->
                        shadow_integration_ritual(def, s, result, order_a, now)
                 [] def.native_handler = "energy_attunement" ->
                        energy_attunement_ritual(def, s, result, order_e, now)
                 [] def.native_handler = "archetype_invocation" ->
                        archetype_invocation_ritual(def, s, result, order_a, now)
                 [] def.native_handler = "void_contemplation" ->
                        void_contemplation_ritual(def, s, result, order_a, now)
                 [] OTHER ->
                        default_symbolic_ritual(def, s, result, order_a, now)
    IN  [ok |-> TRUE, error |-> "", state |-> out.state, result |-> out.result]

(***************************************************************************)
(* ritual.rs: the sandbox path.  A loaded module is described by what      *)
(* running it does: Instance::new fails, the execute_ritual export is      *)
(* missing, the call traps, or the call returns an i32 code.  A module     *)
(* built from src/rituals imports the host functions and calls them        *)
(* (HostCalls) before it returns its code.                                 *)
(***************************************************************************)
HostModule == [kind |-> "imports_host", code |-> 0]

\* the host calls HostModule makes: function, name or symbol, value
HostCalls ==
    <<[function |-> "set_archetype_activation", name |-> "Sage", value |-> R(3, 2)],
      [function |-> "set_energy_amplitude", name |-> "Fire", value |-> R(-1, 2)],
      [function |-> "add_symbol", name |-> "spiral", value |-> Zero]>>

process_wasm_result(wasm_result, s, result) ==
    [result EXCEPT !.emergent_symbols =
        Append(@, CASE wasm_result = 0 -> "check"
                    [] wasm_result = 1 -> "bolt"
                    [] wasm_result = 2 -> "cycle"
                    [] OTHER -> "?")]

\* Instance::new is given the empty import list &[]: a module that imports
\* anything is rejected there, and none of its code runs
execute_wasm_ritual(module, s, result) ==
    CASE module.kind = "instantiate_error" ->
            [ok |-> FALSE, error |-> "Wasm", state |-> s, result |-> result]
      [] module.kind = "imports_host" ->
            [ok |-> FALSE, error |-> "Wasm", state |-> s, result |-> result]
      [] module.kind = "missing_export" ->
            [ok |-> FALSE, error |-> "WasmExecution", state |-> s, result |-> result]
      [] module.kind = "trap" ->
            [ok |-> FALSE, error |-> "WasmExecution", state |-> s, result |-> result]
      [] OTHER ->
            [ok |-> TRUE, error |-> "", state |-> s,
             result |-> process_wasm_result(module.code, s, result)]

execute_ritual_logic(ritual, s, result, order_a, order_e, now) ==
    IF ritual.wasm_module # NoModule
    THEN execute_wasm_ritual(ritual.wasm_module, s, result)
    ELSE execute_native_ritual(ritual.definition, s, result, order_a, order_e, now)

(***************************************************************************)
(* ritual.rs: prerequisite check and resonance scoring                     *)
(***************************************************************************)
RECURSIVE total_activation(_, _)
total_activation(names, archetypes) ==
    IF names = <<>>
    THEN Zero
    ELSE RAdd(IF Head(names) \in DOMAIN archetypes
              THEN archetypes[Head(names)].activation_level
              ELSE Zero,
              total_activation(Tail(names), archetypes))

\* variant: archetypes absent from the state are left out of the mean
check_archetype_prerequisites_present_only(def, s) ==
    LET present == SelectSeq(def.required_archetypes, LAMBDA name : name \in DOMAIN s.archetypes)
    IN  IF present = <<>>
        THEN One
        ELSE RDivInt(total_activation(present, s.archetypes), Len(present))

\* variant: a required energy below its required amplitude fails the check
check_archetype_prerequisites_and_energies(def, s) ==
    IF \E k \in DOMAIN def.energy_requirements :
          \/ k \notin DOMAIN s.energies
          \/ RLt(s.energies[k].amplitude, def.energy_requirements[k])
    THEN Zero
    ELSE IF def.required_archetypes = <<>>
         THEN One
         ELSE RDivInt(total_activation(def.required_archetypes, s.archetypes),
                      Len(def.required_archetypes))

check_archetype_prerequisites(def, s) ==
    IF def.required_archetypes = <<>>
    THEN One
    ELSE RDivInt(total_activation(def.required_archetypes, s.archetypes),
                 Len(def.required_archetypes))

\* variant: the amplitudes are summed but not averaged
calculate_energy_coherence_total(s) ==
    IF DOMAIN s.energies = {}
    THEN R(1, 2)
    ELSE LET order == CHOOSE o \in Orders(DOMAIN s.energies) : TRUE
         IN  RSum([i \in 1..Len(order) |-> s.energies[order[i]].amplitude])

calculate_energy_coherence(s) ==
    IF DOMAIN s.energies = {}
    THEN R(1, 2)
    ELSE LET order == CHOOSE o \in Orders(DOMAIN s.energies) : TRUE
         IN  RDivInt(RSum([i \in 1..Len(order) |-> s.energies[order[i]].amplitude]),
                     Cardinality(DOMAIN s.energies))

calculate_integration_depth(s) ==
    IF DOMAIN s.integrations = {}
    THEN Zero
    ELSE LET order == CHOOSE o \in Orders(DOMAIN s.integrations) : TRUE
         IN  RDivInt(RSum([i \in 1..Len(order) |-> R(s.integrations[order[i]].depth_level, 10)]),
                     Cardinality(DOMAIN s.integrations))

calculate_resonance(s, archetype_resonance) ==
    RDivInt(RAdd(RAdd(archetype_resonance, calculate_energy_coherence(s)),
                 calculate_integration_depth(s)), 3)

(***************************************************************************)
(* ritual.rs: Ritual::execute.  Returns the state left behind and what the  *)
(* caller receives: Ok(result) or Err(error).                              *)
(***************************************************************************)
NoResult == RitualResult_initial("")

\* variant: the prerequisites are measured on the state the handler leaves
execute_measuring_after(ritual, s, order_a, order_e, now) ==
    LET def == ritual.definition
        s1 == begin_transformation(s, Label(def.name), now)
        result0 == RitualResult_initial(def.name)
        logic == execute_ritual_logic(ritual, s1, result0, order_a, order_e, now)
        archetype_resonance == check_archetype_prerequisites(def, logic.state)
        result1 == IF RLt(archetype_resonance, R(3, 10))
                   THEN [logic.result EXCEPT !.completion_status = Status("PartialIntegration", "")]
                   ELSE logic.result
    IN  IF logic.ok
        THEN LET scored == [result1 EXCEPT
                               !.resonance_level = calculate_resonance(logic.state, archetype_resonance)]
                 done == complete_transformation(logic.state, Label(def.name), now)
             IN  [kind |-> "Ok", result |-> scored, error |-> "",
                  state |-> done.state, completed |-> done.ret]
        ELSE [kind |-> "Err", result |-> NoResult, error |-> logic.error,
              state |-> logic.state, completed |-> FALSE]

execute(ritual, s, order_a, order_e, now) ==
    LET def == ritual.definition
        s1 == begin_transformation(s, Label(def.name), now)
        result0 == RitualResult_initial(def.name)
        archetype_resonance == check_archetype_prerequisites(def, s1)
        result1 == IF RLt(archetype_resonance, R(3, 10))
                   THEN [result0 EXCEPT !.completion_status = Status("PartialIntegration", "")]
                   ELSE result0
        logic == execute_ritual_logic(ritual, s1, result1, order_a, order_e, now)
    IN  IF logic.ok
        THEN LET scored == [logic.result EXCEPT
                               !.resonance_level = calculate_resonance(logic.state, archetype_resonance)]
                 done == complete_transformation(logic.state, Label(def.name), now)
             IN  [kind |-> "Ok", result |-> scored, error |-> "",
                  state |-> done.state, completed |-> done.ret]
        ELSE [kind |-> "Err", result |-> NoResult, error |-> logic.error,
              state |-> logic.state, completed |-> FALSE]

(***************************************************************************)
(* Inputs of the operations.                                               *)
(***************************************************************************)
ArchNames == {"Sage", "Shadow"}
EnergyNames == {"Fire"}
IntegrationNames == {"Insight"}
Intensities == {R(-1, 1), R(3, 5)}
Symbols == {"infinity"}
RitualNames == {"r1"}
TransLabels == {Label("r1"), "shadow_work"}
RitualLabels == {Label(n) : n \in RitualNames}
FoundationalNames == {"shadow_integration", "energy_attunement",
                      "archetype_invocation", "void_contemplation"}
CustomNames == {"missing_file", "garbage_file", "sandboxed"}
AllLabels ==
    TransLabels \cup {Label(n) : n \in RitualNames \cup FoundationalNames \cup CustomNames}
Handlers == {"shadow_integration", "energy_attunement", "archetype_invocation",
             "void_contemplation", NoHandler}
FailingModules ==
    {[kind |-> k, code |-> 0] : k \in {"instantiate_error", "missing_export", "trap"}}
ReturningModules == {[kind |-> "returns", code |-> c] : c \in 0..3}
Modules == FailingModules \cup ReturningModules

ReqLists(names) == UNION {[1..n -> names] : n \in 0..MaxReq}

\* a ritual either has a module loaded (the handler name is then never read)
\* or runs its native handler
Rituals(names, modules) ==
    {Ritual(RitualDefinition(n, req, h), NoModule) :
        n \in RitualNames, req \in ReqLists(names), h \in Handlers}
    \cup {Ritual(RitualDefinition(n, req, NoHandler), m) :
        n \in RitualNames, req \in ReqLists(names), m \in modules}

(***************************************************************************)
(* Observation of the run.  last records the most recent                   *)
(* complete_transformation or execute call: operation, label argument,     *)
(* boolean returned by complete_transformation, ritual executed and what   *)
(* execute returned; pre is the state that call started from.  The other   *)
(* mutators are recorded as "mutate" with pre the state they produced.     *)
(* begun and completed count, per label, the begin_transformation calls    *)
(* and the complete_transformation calls that returned true.               *)
(***************************************************************************)
NoRitual == Ritual(RitualDefinition("", <<>>, NoHandler), NoModule)
NoReturn == [kind |-> "", result |-> NoResult, error |-> ""]

Call(op, label, ret, ritual, out) ==
    [op |-> op, label |-> label, ret |-> ret, ritual |-> ritual, out |-> out,
     args |-> <<>>]

\* a call of a method of one entry of the state, with its arguments
CallOn(op, name, ret, args) ==
    [Call(op, name, ret, NoRitual, NoReturn) EXCEPT !.args = args]

Mutate == Call("mutate", "", FALSE, NoRitual, NoReturn)

\* db holds the practitioner's rows of the archetypal_states table, oldest
\* first; requests holds the execute_ritual requests the server is handling
NoRequests == <<>>

Init ==
    /\ clock = 0
    /\ state = SymbolicState_new(0)
    /\ last = Call("new", "", FALSE, NoRitual, NoReturn)
    /\ pre = state
    /\ begun = [l \in AllLabels |-> 0]
    /\ completed = [l \in AllLabels |-> 0]
    /\ db = <<>>
    /\ requests = NoRequests

\* time passes between two calls
Tick ==
    /\ clock < MaxClock
    /\ clock' = clock + 1
    /\ UNCHANGED <<state, last, pre, begun, completed, db, requests>>

AddArchetype(name) ==
    /\ state' = add_archetype(state, Archetype_new(name), clock)
    /\ last' = Mutate
    /\ pre' = state'
    /\ UNCHANGED <<clock, begun, completed, db, requests>>

AddEnergy(name, frequency) ==
    /\ state' = add_energy(state, Energy_new(name, frequency), clock)
    /\ last' = Mutate
    /\ pre' = state'
    /\ UNCHANGED <<clock, begun, completed, db, requests>>

AddIntegration(name) ==
    /\ state' = add_integration(state, Integration_new(name), clock)
    /\ last' = Mutate
    /\ pre' = state'
    /\ UNCHANGED <<clock, begun, completed, db, requests>>

Invoke(name, intensity) ==
    /\ name \in DOMAIN state.archetypes
    /\ state.archetypes[name].evolution_count < MaxInvoke
    /\ state' = [state EXCEPT !.archetypes[name] = invoke(@, intensity)]
    /\ last' = Mutate
    /\ pre' = state'
    /\ UNCHANGED <<clock, begun, completed, db, requests>>

AddUnresolvedSymbol(symbol) ==
    /\ Len(state.unresolved_symbols) < MaxSymbols
    /\ state' = add_unresolved_symbol(state, symbol, clock)
    /\ last' = Mutate
    /\ pre' = state'
    /\ UNCHANGED <<clock, begun, completed, db, requests>>

ResolveSymbol(symbol) ==
    LET out == resolve_symbol(state, symbol, clock)
    IN  /\ state' = out.state
        /\ last' = Mutate
        /\ pre' = state'
        /\ UNCHANGED <<clock, begun, completed, db, requests>>

BeginTransformation(label) ==
    /\ begun[label] < MaxBegun
    /\ state' = begin_transformation(state, label, clock)
    /\ last' = Mutate
    /\ pre' = state'
    /\ begun' = [begun EXCEPT ![label] = @ + 1]
    /\ UNCHANGED <<clock, completed, db, requests>>

CompleteTransformation(label) ==
    LET out == complete_transformation(state, label, clock)
    IN  /\ state' = out.state
        /\ last' = Call("complete_transformation", label, out.ret, NoRitual, NoReturn)
        /\ pre' = state
        /\ completed' = [completed EXCEPT ![label] = IF out.ret THEN @ + 1 ELSE @]
        /\ UNCHANGED <<clock, begun, db, requests>>

\* the iteration orders the ritual's handler can meet in state s
IterOrders(ritual, s) ==
    LET fixed_a == CHOOSE o \in Orders(DOMAIN s.archetypes) : TRUE
        fixed_e == CHOOSE o \in Orders(DOMAIN s.energies) : TRUE
    IN  IF ritual.wasm_module = NoModule /\ ritual.definition.native_handler = "shadow_integration"
        THEN {<<a, fixed_e>> : a \in Orders(DOMAIN s.archetypes)}
        ELSE IF ritual.wasm_module = NoModule /\ ritual.definition.native_handler = "energy_attunement"
             THEN {<<fixed_a, e>> : e \in Orders(DOMAIN s.energies)}
             ELSE {<<fixed_a, fixed_e>>}

Execute(ritual) ==
    /\ begun[Label(ritual.definition.name)] < MaxBegun
    /\ Len(state.unresolved_symbols) < MaxSymbols
    /\ \E orders \in IterOrders(ritual, state) :
       \E out \in {execute(ritual, state, orders[1], orders[2], clock)} :
          LET label == Label(ritual.definition.name)
          IN  /\ state' = out.state
              /\ last' = Call("execute", label, out.completed, ritual,
                              [kind |-> out.kind, result |-> out.result, error |-> out.error])
              /\ pre' = state
              /\ begun' = [begun EXCEPT ![label] = @ + 1]
              /\ completed' = [completed EXCEPT ![label] = IF out.completed THEN @ + 1 ELSE @]
              /\ UNCHANGED <<clock, db, requests>>

(***************************************************************************)
(* Spec: rituals executed on states built with the mutators.               *)
(***************************************************************************)
Next ==
    \/ \E name \in {"Sage"} : AddArchetype(name)
    \/ \E name \in EnergyNames : AddEnergy(name, R(10, 1))
    \/ \E name \in IntegrationNames : AddIntegration(name)
    \/ \E name \in {"Sage"}, intensity \in Intensities : Invoke(name, intensity)
    \/ \E symbol \in Symbols : AddUnresolvedSymbol(symbol)
    \/ \E symbol \in Symbols \cup {"void"} : ResolveSymbol(symbol)
    \/ \E label \in RitualLabels : BeginTransformation(label)
    \/ \E label \in RitualLabels : CompleteTransformation(label)
    \/ \E ritual \in Rituals({"Sage"}, FailingModules \cup {[kind |-> "returns", code |-> 0]}) :
          Execute(ritual)

Spec == Init /\ [][Next]_vars

(***************************************************************************)
(* SpecState: the SymbolicState mutators alone, with time passing.         *)
(***************************************************************************)
NextState ==
    \/ Tick
    \/ \E name \in {"Sage"} : AddArchetype(name)
    \/ \E name \in {"Sage"}, intensity \in Intensities : Invoke(name, intensity)
    \/ \E symbol \in Symbols : AddUnresolvedSymbol(symbol)
    \/ \E symbol \in Symbols \cup {"void"} : ResolveSymbol(symbol)
    \/ \E label \in TransLabels : BeginTransformation(label)
    \/ \E label \in TransLabels : CompleteTransformation(label)

SpecState == Init /\ [][NextState]_vars

(***************************************************************************)
(* SpecRitual: Ritual::execute applied to prepared states, as the tests of *)
(* ritual.rs prepare them (create_test_state): archetypes with given       *)
(* activation levels and shadow aspects, energies with given frequency and *)
(* amplitude, integrations with given depth.                               *)
(***************************************************************************)
PreparedArchetype(name, level, shadows) ==
    [Archetype_new(name) EXCEPT !.activation_level = level, !.shadow_aspects = shadows]

PreparedEnergy(name, frequency, amplitude) ==
    [Energy_new(name, frequency) EXCEPT !.amplitude = amplitude]

PreparedIntegration(name, depth) ==
    [Integration_new(name) EXCEPT !.depth_level = depth]

SageOptions ==
    {PreparedArchetype("Sage", level, <<>>) : level \in {R(1, 4), R(3, 10), R(4, 5)}}
    \cup {PreparedArchetype("Sage", R(4, 5), <<"Doubt">>)}

ShadowOptions ==
    {PreparedArchetype("Shadow", Zero, <<>>),
     PreparedArchetype("Shadow", R(3, 5), <<"Pride", "Envy">>),
     PreparedArchetype("Shadow", R(1, 5), <<"Pride">>),
     PreparedArchetype("Shadow", R(1, 2), <<"Pride">>)}

ArchetypeMaps ==
    {EmptyMap}
    \cup {Insert(EmptyMap, "Sage", a) : a \in SageOptions}
    \cup {Insert(EmptyMap, "Shadow", b) : b \in ShadowOptions}
    \cup {Insert(Insert(EmptyMap, "Sage", a), "Shadow", b) : a \in SageOptions, b \in ShadowOptions}

EnergyMaps ==
    {EmptyMap,
     Insert(EmptyMap, "Fire", PreparedEnergy("Fire", R(10, 1), R(7, 10))),
     Insert(Insert(EmptyMap, "Fire", PreparedEnergy("Fire", R(10, 1), R(7, 10))),
            "Water", PreparedEnergy("Water", R(5, 1), R(3, 5))),
     Insert(Insert(EmptyMap, "Fire", PreparedEnergy("Fire", R(8, 1), R(1, 2))),
            "Water", PreparedEnergy("Water", R(7, 1), One)),
     Insert(Insert(EmptyMap, "Fire", PreparedEnergy("Fire", R(883, 100), R(1, 2))),
            "Water", PreparedEnergy("Water", R(5, 1), One))}

IntegrationMaps ==
    {EmptyMap,
     Insert(EmptyMap, "Insight", PreparedIntegration("Insight", 1)),
     Insert(Insert(EmptyMap, "Insight", PreparedIntegration("Insight", 3)),
            "Vision", PreparedIntegration("Vision", 10))}

PreparedStates ==
    {[SymbolicState_new(0) EXCEPT !.archetypes = a, !.energies = e, !.integrations = i] :
        a \in ArchetypeMaps, e \in EnergyMaps, i \in IntegrationMaps}

InitRitual ==
    /\ clock = 0
    /\ state \in PreparedStates
    /\ last = Call("new", "", FALSE, NoRitual, NoReturn)
    /\ pre = state
    /\ begun = [l \in AllLabels |-> 0]
    /\ completed = [l \in AllLabels |-> 0]
    /\ db = <<>>
    /\ requests = NoRequests

\* the one execute call made on the prepared state
RunRitual(ritual) ==
    /\ last.op = "new"
    /\ Execute(ritual)

\* rituals that require two archetypes, and rituals whose handler name is
\* none of the four known ones
PairRituals ==
    {Ritual(RitualDefinition(n, req, "archetype_invocation"), NoModule) :
        n \in RitualNames, req \in [1..2 -> ArchNames]}
UnknownRituals ==
    {Ritual(RitualDefinition(n, <<>>, h), NoModule) :
        n \in RitualNames, h \in {"unknown_handler", ""}}

\* a ritual whose loaded module calls the host functions
HostRituals ==
    {Ritual(RitualDefinition(n, <<>>, NoHandler), HostModule) : n \in RitualNames}

\* rituals whose definition has a description, an intent, energy
\* requirements and parameters
DescribedRituals ==
    {Ritual([RitualDefinition(n, req, h) EXCEPT
                !.description = "Test ritual",
                !.intent = "Testing ritual execution",
                !.energy_requirements = Insert(EmptyMap, "Fire", R(9, 10)),
                !.parameters = Insert(EmptyMap, "depth", "3")],
            NoModule) :
        n \in RitualNames, req \in {<<>>, <<"Sage">>}, h \in Handlers}

NextRitual ==
    \E ritual \in Rituals(ArchNames, Modules) \cup PairRituals \cup UnknownRituals
                  \cup HostRituals \cup DescribedRituals :
        RunRitual(ritual)

SpecRitual == InitRitual /\ [][NextRitual]_vars

(***************************************************************************)
(* SpecValues: one Energy::modulate or Integration::deepen call on an      *)
(* entry of a state holding an energy of amplitude 0, 1/2 or 1 and an      *)
(* integration of depth 1 to 10.                                           *)
(***************************************************************************)
ValueStates ==
    {[SymbolicState_new(0) EXCEPT
        !.energies = Insert(EmptyMap, "Fire", PreparedEnergy("Fire", R(10, 1), a)),
        !.integrations = Insert(EmptyMap, "Insight", PreparedIntegration("Insight", d))] :
        a \in {Zero, R(1, 2), One}, d \in 1..10}

FrequencyShifts == {R(-20, 1), Zero, R(56, 1)}
AmplitudeShifts == {R(-2, 1), R(-1, 2), R(-1, 10), Zero, R(1, 10), R(1, 2), R(2, 1)}
Levels == 0..(U8 - 1)

InitValues ==
    /\ clock = 0
    /\ state \in ValueStates
    /\ last = Call("new", "", FALSE, NoRitual, NoReturn)
    /\ pre = state
    /\ begun = [l \in AllLabels |-> 0]
    /\ completed = [l \in AllLabels |-> 0]
    /\ db = <<>>
    /\ requests = NoRequests

Modulate(name, frequency_shift, amplitude_shift) ==
    /\ last.op = "new"
    /\ name \in DOMAIN state.energies
    /\ state' = [state EXCEPT !.energies[name] =
                                modulate(@, frequency_shift, amplitude_shift)]
    /\ last' = CallOn("modulate", name, TRUE, <<frequency_shift, amplitude_shift>>)
    /\ pre' = state
    /\ UNCHANGED <<clock, begun, completed, db, requests>>

\* ret records whether the call returned (TRUE) or panicked (FALSE)
Deepen(name, levels, build) ==
    /\ last.op = "new"
    /\ name \in DOMAIN state.integrations
    /\ LET out == deepen(state.integrations[name], levels, build)
       IN  /\ state' = [state EXCEPT !.integrations[name] = out.integration]
           /\ last' = CallOn("deepen", name, ~out.panicked, <<levels>>)
    /\ pre' = state
    /\ UNCHANGED <<clock, begun, completed, db, requests>>

NextValues ==
    \/ \E name \in EnergyNames, fs \in FrequencyShifts, as \in AmplitudeShifts :
          Modulate(name, fs, as)
    \/ \E name \in IntegrationNames, levels \in Levels, build \in Builds :
          Deepen(name, levels, build)

SpecValues == InitValues /\ [][NextValues]_vars

(***************************************************************************)
(* SpecConvert: a prepared state, with unresolved symbols and active       *)
(* transformations, is converted to its ArchetypalState form, which is     *)
(* stored, and converted back from the stored form.                        *)
(***************************************************************************)
ConvertStates ==
    {[p EXCEPT !.unresolved_symbols = u, !.active_transformations = t] :
        p \in PreparedStates,
        u \in {<<>>, <<"void", "infinity">>},
        t \in {<<>>, <<"shadow_work", "awakening", "shadow_work">>}}

InitConvert ==
    /\ clock = 0
    /\ state \in ConvertStates
    /\ last = Call("new", "", FALSE, NoRitual, NoReturn)
    /\ pre = state
    /\ begun = [l \in AllLabels |-> 0]
    /\ completed = [l \in AllLabels |-> 0]
    /\ db = <<>>
    /\ requests = NoRequests

FromSymbolicState ==
    /\ last.op = "new"
    /\ \E order_i \in Orders(DOMAIN state.integrations) :
          db' = Append(db, from_symbolic_state(state, order_i))
    /\ last' = CallOn("from_symbolic_state", "", TRUE, <<>>)
    /\ pre' = state
    /\ UNCHANGED <<state, clock, begun, completed, requests>>

\* pre stays the state the stored form was made from
ToSymbolicState ==
    /\ last.op = "from_symbolic_state"
    /\ state' = to_symbolic_state(db[Len(db)], clock)
    /\ last' = CallOn("to_symbolic_state", "", TRUE, <<>>)
    /\ UNCHANGED <<pre, clock, begun, completed, db, requests>>

NextConvert ==
    \/ FromSymbolicState
    \/ ToSymbolicState

SpecConvert == InitConvert /\ [][NextConvert]_vars

(***************************************************************************)
(* handlers.rs: the execute_ritual request handler of the web API.  The    *)
(* practitioner's current state is the newest row of archetypal_states;    *)
(* the handler reads it, converts it to a SymbolicState of its own, runs   *)
(* the ritual on that and inserts the converted result as a new row.       *)
(* Every database call is an await of its own: the requests a server is    *)
(* handling interleave at these points, and nothing is held between them.  *)
(***************************************************************************)
convert_archetypal_to_symbolic(archetypal_state, now) ==
    LET fresh == SymbolicState_new(now)
        archetype(name) ==
            [Archetype_new(name) EXCEPT
                !.activation_level = archetypal_state.archetypes[name]]
        energy(name) ==
            [Energy_new(name, R(528, 1)) EXCEPT
                !.amplitude = archetypal_state.energies[name]]
    IN  [fresh EXCEPT
            !.archetypes = [k \in DOMAIN archetypal_state.archetypes |-> archetype(k)],
            !.energies = [k \in DOMAIN archetypal_state.energies |-> energy(k)],
            !.unresolved_symbols = archetypal_state.symbols]

\* starts from ArchetypalState::new(), whose default entries stay where the
\* symbolic state has none of that name
convert_symbolic_to_archetypal(symbolic_state) ==
    LET fresh == ArchetypalState_new
    IN  [fresh EXCEPT
            !.archetypes =
                [k \in DOMAIN fresh.archetypes \cup DOMAIN symbolic_state.archetypes |->
                    IF k \in DOMAIN symbolic_state.archetypes
                    THEN symbolic_state.archetypes[k].activation_level
                    ELSE fresh.archetypes[k]],
            !.energies =
                [k \in DOMAIN fresh.energies \cup DOMAIN symbolic_state.energies |->
                    IF k \in DOMAIN symbolic_state.energies
                    THEN symbolic_state.energies[k].amplitude
                    ELSE fresh.energies[k]],
            !.symbols = symbolic_state.unresolved_symbols]

\* a row of sacred_rituals: wasm_module_data is absent, or bytes that
\* Module::new rejects, or a module described by what running it does
NoData == [kind |-> "none", code |-> 0]
Malformed == [kind |-> "malformed", code |-> 0]
Looping == [kind |-> "loops", code |-> 0]

SacredRitual(name, required_archetypes, wasm_module_data) ==
    [name |-> name, required_archetypes |-> required_archetypes,
     wasm_module_data |-> wasm_module_data]

\* the ritual the handler builds from the row: the row's name is the
\* handler name; bytes that fail to load leave the ritual without module
load_wasm_from_bytes(wasm_module_data) ==
    IF wasm_module_data \in {NoData, Malformed} THEN NoModule ELSE wasm_module_data

RitualOf(record) ==
    Ritual(RitualDefinition(record.name, record.required_archetypes, record.name),
           load_wasm_from_bytes(record.wasm_module_data))

Catalog ==
    {SacredRitual("void_contemplation", <<>>, NoData),
     SacredRitual("archetype_invocation", <<"Sage">>, NoData),
     SacredRitual("grounding", <<>>, Malformed),
     SacredRitual("trapping", <<>>, [kind |-> "trap", code |-> 0]),
     SacredRitual("endless", <<>>, Looping)}

RequestIds == {1, 2}

NoRecord == SacredRitual("", <<>>, NoData)

\* returned is what the handler's call of ritual.execute gives back once it
\* returns: "Ok", "Err", or "never" for a call that does not return
Request(pc, record, symbolic_state, returned) ==
    [pc |-> pc, record |-> record, symbolic_state |-> symbolic_state,
     returned |-> returned]

Idle == Request("idle", NoRecord, SymbolicState_new(0), "")

\* a row stored by an earlier request
StoredRow ==
    [ArchetypalState_new EXCEPT !.archetypes["Sage"] = R(4, 5),
                                !.archetypes["Shadow"] = R(3, 5),
                                !.symbols = <<"infinity">>]

\* a row of the table as get_practitioner_current_state deserializes it:
\* the integrations and transformations columns hold names, and the
\* archetypes and energies columns hold the entries the row was written with
RecordedRow ==
    ArchetypalState(Insert(EmptyMap, "Sage", R(4, 5)), Insert(EmptyMap, "Fire", R(1, 2)),
                    <<"Insight">>, <<"infinity">>, <<"shadow_work">>)

InitServer ==
    /\ clock = 0
    /\ state = SymbolicState_new(0)
    /\ last = Call("new", "", FALSE, NoRitual, NoReturn)
    /\ pre = state
    /\ begun = [l \in AllLabels |-> 0]
    /\ completed = [l \in AllLabels |-> 0]
    /\ db \in {<<>>, <<StoredRow>>, <<RecordedRow>>}
    /\ requests = [r \in RequestIds |-> Idle]

ghosts == <<state, clock, last, pre, begun, completed>>

\* the ritual row is fetched and the newest state row is read
GetCurrentState(r, record) ==
    /\ requests[r].pc = "idle"
    /\ requests' = [requests EXCEPT ![r] =
          IF db = <<>>
          THEN Request("creating", record, SymbolicState_new(0), "")
          ELSE Request("loaded", record,
                       convert_archetypal_to_symbolic(db[Len(db)], clock), "")]
    /\ UNCHANGED <<db, ghosts>>

\* no row was found: the initial state is stored and used
StoreInitialState(r) ==
    /\ requests[r].pc = "creating"
    /\ db' = Append(db, ArchetypalState_new)
    /\ requests' = [requests EXCEPT ![r] =
          Request("loaded", @.record,
                  convert_archetypal_to_symbolic(ArchetypalState_new, clock), "")]
    /\ UNCHANGED ghosts

\* the handler calls ritual.execute on the request's own symbolic state and
\* the ritual runs.  The call into the module is made with no fuel, epoch
\* or deadline set: a module whose execute_ritual loops never hands control
\* back, and the call made on it does not return.
ExecuteRitual(r) ==
    /\ requests[r].pc = "loaded"
    /\ LET ritual == RitualOf(requests[r].record)
           s == requests[r].symbolic_state
       IN  IF ritual.wasm_module = Looping
           THEN requests' = [requests EXCEPT ![r] =
                   Request("in_execute", @.record,
                           begin_transformation(s, Label(ritual.definition.name), clock),
                           "never")]
           ELSE \E orders \in IterOrders(ritual, s) :
                \E out \in {execute(ritual, s, orders[1], orders[2], clock)} :
                   requests' = [requests EXCEPT ![r] =
                      Request("in_execute", @.record, out.state, out.kind)]
    /\ UNCHANGED <<db, ghosts>>

\* the call returns to the handler; an Err is answered with status 500 and
\* nothing is stored
ReturnFromExecute(r) ==
    /\ requests[r].pc = "in_execute"
    /\ requests[r].returned # "never"
    /\ requests' = [requests EXCEPT ![r].pc =
                        IF requests[r].returned = "Ok" THEN "executed" ELSE "failed"]
    /\ UNCHANGED <<db, ghosts>>

StoreArchetypalState(r) ==
    /\ requests[r].pc = "executed"
    /\ db' = Append(db, convert_symbolic_to_archetypal(requests[r].symbolic_state))
    /\ requests' = [requests EXCEPT ![r].pc = "done"]
    /\ UNCHANGED ghosts

Handle(r) ==
    \/ \E record \in Catalog : GetCurrentState(r, record)
    \/ StoreInitialState(r)
    \/ ExecuteRitual(r)
    \/ ReturnFromExecute(r)
    \/ StoreArchetypalState(r)

NextServer == \E r \in RequestIds : Handle(r)

\* the runtime resumes the handler of every request whose awaited call has
\* completed: the insert of the initial row, the call of ritual.execute and
\* the insert of the new row.  When a request arrives is up to the client.
Resume(r) ==
    \/ StoreInitialState(r)
    \/ ReturnFromExecute(r)
    \/ StoreArchetypalState(r)

SpecServer ==
    /\ InitServer
    /\ [][NextServer]_vars
    /\ \A r \in RequestIds : WF_vars(Resume(r))

(***************************************************************************)
(* engine.rs: CodexEngine.  state is the engine's SymbolicState, db the    *)
(* content of state.json (empty while the file does not exist) and last    *)
(* the most recent execute_ritual call with what it returned.              *)
(***************************************************************************)
\* variant: Sage starts awake
initialize_primordial_state_awake(s, now) ==
    LET s1 == add_archetype(s, invoke(Archetype_new("Sage"), R(1, 2)), now)
        s2 == add_archetype(s1, Archetype_new("Shadow"), now)
        s3 == add_archetype(s2, Archetype_new("Anima"), now)
        s4 == add_archetype(s3, Archetype_new("Creator"), now)
        s5 == add_energy(s4, Energy_new("Earth", R(35, 10)), now)
        s6 == add_energy(s5, Energy_new("Fire", R(92, 10)), now)
    IN  add_energy(s6, Energy_new("Void", R(1, 10)), now)

initialize_primordial_state(s, now) ==
    LET s1 == add_archetype(s, Archetype_new("Sage"), now)
        s2 == add_archetype(s1, Archetype_new("Shadow"), now)
        s3 == add_archetype(s2, Archetype_new("Anima"), now)
        s4 == add_archetype(s3, Archetype_new("Creator"), now)
        s5 == add_energy(s4, Energy_new("Earth", R(35, 10)), now)
        s6 == add_energy(s5, Energy_new("Fire", R(92, 10)), now)
    IN  add_energy(s6, Energy_new("Void", R(1, 10)), now)

add_custom_ritual(rituals, ritual) == Insert(rituals, ritual.name, ritual)

register_foundational_rituals(rituals) ==
    LET shadow_ritual ==
            [RitualDefinition("shadow_integration", <<"Shadow", "Sage">>, "shadow_integration")
                EXCEPT !.description = "A ritual to integrate rejected aspects of the self",
                       !.intent = "To embrace and transform shadow elements into conscious wisdom",
                       !.energy_requirements =
                            Insert(Insert(EmptyMap, "Fire", R(6, 10)), "Void", R(3, 10))]
        attunement_ritual ==
            [RitualDefinition("energy_attunement", <<"Sage">>, "energy_attunement")
                EXCEPT !.description = "A ritual to harmonize energetic frequencies",
                       !.intent = "To align personal energy with natural harmonic resonance",
                       !.energy_requirements = Insert(EmptyMap, "Earth", R(4, 10))]
        invocation_ritual ==
            [RitualDefinition("archetype_invocation", <<"Creator", "Anima">>, "archetype_invocation")
                EXCEPT !.description = "A ritual to invoke and activate archetypal energies",
                       !.intent = "To awaken dormant archetypal forces within consciousness",
                       !.energy_requirements = Insert(EmptyMap, "Fire", R(7, 10))]
        void_ritual ==
            [RitualDefinition("void_contemplation", <<"Sage">>, "void_contemplation")
                EXCEPT !.description = "A ritual of emptiness and infinite potential",
                       !.intent = "To enter the void space where all transformation becomes possible",
                       !.energy_requirements = Insert(EmptyMap, "Void", R(8, 10))]
    IN  add_custom_ritual(add_custom_ritual(add_custom_ritual(add_custom_ritual(
            rituals, shadow_ritual), attunement_ritual), invocation_ritual), void_ritual)

\* the files a wasm_module_path can name: bytes that Module::new rejects, or
\* a module described by what running it does; any other path is not readable
ModuleFiles ==
    Insert(Insert(EmptyMap, "garbage.wasm", Malformed),
           "returns.wasm", [kind |-> "returns", code |-> 0])

\* ritual.rs: std::fs::read(module_path)? and Module::new(..)? hand their
\* error to the caller; the module is stored when both succeed
load_wasm_module(ritual, files) ==
    LET module_path == ritual.definition.wasm_module_path
    IN  IF module_path = NoPath
        THEN [ok |-> TRUE, error |-> "", ritual |-> ritual]
        ELSE IF module_path \notin DOMAIN files
             THEN [ok |-> FALSE, error |-> "Io", ritual |-> ritual]
             ELSE IF files[module_path] = Malformed
                  THEN [ok |-> FALSE, error |-> "Wasm", ritual |-> ritual]
                  ELSE [ok |-> TRUE, error |-> "",
                        ritual |-> [ritual EXCEPT !.wasm_module = files[module_path]]]

\* CodexEngine::new with no state.json: the primordial state and the four
\* foundational rituals
FoundationalRegistry == register_foundational_rituals(EmptyMap)

\* the same engine after add_custom_ritual of three sandboxed rituals
CustomRegistry ==
    LET custom(name, path) ==
            [RitualDefinition(name, <<>>, "void_contemplation") EXCEPT !.wasm_module_path = path]
    IN  add_custom_ritual(add_custom_ritual(add_custom_ritual(FoundationalRegistry,
            custom("missing_file", "missing.wasm")),
            custom("garbage_file", "garbage.wasm")),
            custom("sandboxed", "returns.wasm"))

InitEngine ==
    /\ clock = 0
    /\ state = initialize_primordial_state(SymbolicState_new(0), 0)
    /\ last = Call("new", "", FALSE, NoRitual, NoReturn)
    /\ pre = state
    /\ begun = [l \in AllLabels |-> 0]
    /\ completed = [l \in AllLabels |-> 0]
    /\ db = <<>>
    /\ requests = NoRequests

\* CodexEngine::execute_ritual: look the definition up, load its module
\* when it names one, execute on the engine's state, save the state.  Each
\* `?` returns the error to the caller at that point.
EngineExecuteRitual(rituals, ritual_name) ==
    /\ state.evolution_cycle < MaxRituals
    /\ pre' = state
    /\ UNCHANGED <<clock, requests>>
    /\ IF ritual_name \notin DOMAIN rituals
       THEN /\ last' = Call("execute_ritual", ritual_name, FALSE, NoRitual,
                            [kind |-> "Err", result |-> NoResult, error |-> "RitualNotFound"])
            /\ UNCHANGED <<state, db, begun, completed>>
       ELSE LET loaded == load_wasm_module(Ritual(rituals[ritual_name], NoModule), ModuleFiles)
                label == Label(ritual_name)
            IN  IF ~loaded.ok
                THEN /\ last' = Call("execute_ritual", ritual_name, FALSE, loaded.ritual,
                                     [kind |-> "Err", result |-> NoResult, error |-> loaded.error])
                     /\ UNCHANGED <<state, db, begun, completed>>
                ELSE \E orders \in IterOrders(loaded.ritual, state) :
                     \E out \in {execute(loaded.ritual, state, orders[1], orders[2], clock)} :
                        /\ state' = out.state
                        /\ last' = Call("execute_ritual", ritual_name, out.completed, loaded.ritual,
                                        [kind |-> out.kind, result |-> out.result, error |-> out.error])
                        /\ begun' = [begun EXCEPT ![label] = @ + 1]
                        /\ completed' = [completed EXCEPT ![label] = IF out.completed THEN @ + 1 ELSE @]
                        /\ db' = IF out.kind = "Ok" THEN <<out.state>> ELSE db

NextEngine ==
    \E ritual_name \in FoundationalNames : EngineExecuteRitual(FoundationalRegistry, ritual_name)

SpecEngine == InitEngine /\ [][NextEngine]_vars

NextCustom ==
    \E ritual_name \in FoundationalNames \cup CustomNames \cup {"unregistered"} :
        EngineExecuteRitual(CustomRegistry, ritual_name)

SpecCustom == InitEngine /\ [][NextCustom]_vars

(***************************************************************************)
(* SpecAttune: CodexEngine::new finds state.json and loads the state of a  *)
(* previous session (load_state); energy_attunement is then run on it      *)
(* again and again.                                                        *)
(***************************************************************************)
LoadedStates ==
    {[SymbolicState_new(0) EXCEPT !.archetypes = a, !.energies = e] :
        a \in {Insert(EmptyMap, "Sage", PreparedArchetype("Sage", level, <<>>)) :
                   level \in {Zero, R(1, 2)}},
        e \in {Insert(fire, "Water", PreparedEnergy("Water", frequency, R(3, 5))) :
                   fire \in {Insert(EmptyMap, "Fire", PreparedEnergy("Fire", f, R(7, 10))) :
                                f \in {R(12, 1), R(10, 1), R(9, 1), R(8, 1)}},
                   frequency \in {R(1, 1), R(5, 1), R(13, 2), R(883, 100)}}}

InitAttune ==
    /\ clock = 0
    /\ state \in LoadedStates
    /\ last = Call("new", "", FALSE, NoRitual, NoReturn)
    /\ pre = state
    /\ begun = [l \in AllLabels |-> 0]
    /\ completed = [l \in AllLabels |-> 0]
    /\ db = <<state>>
    /\ requests = NoRequests

NextAttune == EngineExecuteRitual(FoundationalRegistry, "energy_attunement")

SpecAttune == InitAttune /\ [][NextAttune]_vars

(***************************************************************************)
(* Vocabulary of the properties, written from the statements they check    *)
(* and not from the operators above.                                       *)
(***************************************************************************)
Range(seq) == {seq[i] : i \in 1..Len(seq)}

Count(seq, x) == Cardinality({i \in 1..Len(seq) : seq[i] = x})

Executed == last.op = "execute"
Returned == Executed /\ last.out.kind = "Ok"
SandboxLoaded == last.ritual.wasm_module # NoModule
SandboxFailed ==
    last.ritual.wasm_module.kind \in {"instantiate_error", "missing_export", "trap"}
NativePath == Returned /\ ~SandboxLoaded

InUnit(x) == RLe(Zero, x) /\ RLe(x, One)

RECURSIVE ActivationSum(_, _, _)
ActivationSum(req, i, archetypes) ==
    IF i = 0
    THEN Zero
    ELSE RAdd(ActivationSum(req, i - 1, archetypes),
              IF req[i] \in DOMAIN archetypes THEN archetypes[req[i]].activation_level ELSE Zero)

\* mean activation over the required list, absent archetypes as 0, 1 for an empty list
ArchetypeResonance(req, s) ==
    IF Len(req) = 0
    THEN One
    ELSE RMul(ActivationSum(req, Len(req), s.archetypes), R(1, Len(req)))

RECURSIVE AmplitudeSum(_, _)
AmplitudeSum(names, energies) ==
    IF names = {}
    THEN Zero
    ELSE LET k == CHOOSE x \in names : TRUE
         IN  RAdd(energies[k].amplitude, AmplitudeSum(names \ {k}, energies))

EnergyCoherence(s) ==
    IF DOMAIN s.energies = {}
    THEN R(1, 2)
    ELSE RMul(AmplitudeSum(DOMAIN s.energies, s.energies),
              R(1, Cardinality(DOMAIN s.energies)))

RECURSIVE DepthSum(_, _)
DepthSum(names, integrations) ==
    IF names = {}
    THEN Zero
    ELSE LET k == CHOOSE x \in names : TRUE
         IN  RAdd(R(integrations[k].depth_level, 10), DepthSum(names \ {k}, integrations))

IntegrationDepth(s) ==
    IF DOMAIN s.integrations = {}
    THEN Zero
    ELSE RMul(DepthSum(DOMAIN s.integrations, s.integrations),
              R(1, Cardinality(DOMAIN s.integrations)))

\* what execute with the native handler does from state s, for some iteration order
NativeOutcomes(def, s, now) ==
    {execute(Ritual(def, NoModule), s, orders[1], orders[2], now) :
        orders \in Orders(DOMAIN s.archetypes) \X Orders(DOMAIN s.energies)}

(***************************************************************************)
(* C1: when the loaded sandbox module fails (instantiation error, missing  *)
(* execute_ritual export, trap), execute falls back to the native handler: *)
(* the caller receives Ok(result), no error, and state and result are      *)
(* those of the native run.                                                *)
(***************************************************************************)
C1_SandboxFailureFallsBack ==
    (Executed /\ SandboxFailed) =>
        /\ last.out.kind = "Ok"
        /\ last.out.error = ""
        /\ \E native \in NativeOutcomes(last.ritual.definition, pre, state.last_updated) :
              /\ native.state = state
              /\ native.result = last.out.result

(***************************************************************************)
(* C2: execute never returns an error; when the sandbox or the handler     *)
(* fails the caller still receives a result, whose completion_status is    *)
(* Error(reason) and whose state_changes are those logged before the fault *)
(* (none, for a sandbox fault).                                            *)
(***************************************************************************)
C2_ExecuteNeverErrs ==
    Executed =>
        /\ last.out.kind = "Ok"
        /\ SandboxFailed =>
              /\ last.out.result.completion_status.tag = "Error"
              /\ last.out.result.state_changes = <<>>

(***************************************************************************)
(* C3: every execute call, failing ones included, completes the            *)
(* transformation it began: active_transformations is the list it was      *)
(* before the call and evolution_cycle is one higher.                      *)
(***************************************************************************)
C3_ExecuteCompletesTransformation ==
    Executed =>
        /\ state.active_transformations = pre.active_transformations
        /\ state.evolution_cycle = pre.evolution_cycle + 1

(***************************************************************************)
(* C4: for a run of execute that does not fail, completion_status is       *)
(* PartialIntegration exactly when the mean activation over                *)
(* required_archetypes (absent ones as 0) is below 0.3, and Complete       *)
(* otherwise.                                                              *)
(***************************************************************************)
C4_StatusFollowsPrerequisites ==
    Returned =>
        last.out.result.completion_status =
            IF RLt(ArchetypeResonance(last.ritual.definition.required_archetypes, pre), R(3, 10))
            THEN Status("PartialIntegration", "")
            ELSE Status("Complete", "")

\* a ritual whose only required archetype is absent returned PartialIntegration
C4_Witness ==
    /\ Returned
    /\ Len(last.ritual.definition.required_archetypes) = 1
    /\ last.ritual.definition.required_archetypes[1] \notin DOMAIN pre.archetypes
    /\ DOMAIN pre.archetypes # {}
    /\ ArchetypeResonance(last.ritual.definition.required_archetypes, pre) = Zero
    /\ last.out.result.completion_status.tag = "PartialIntegration"

(***************************************************************************)
(* C5: on the native path resonance_level is (archetype_resonance +        *)
(* energy_coherence + integration_depth) / 3, the archetype term measured  *)
(* on the state before the handler and the energy and integration terms on *)
(* the state after it.                                                     *)
(***************************************************************************)
C5_ResonanceFormula ==
    NativePath =>
        RMul(last.out.result.resonance_level, R(3, 1)) =
            RAdd(RAdd(ArchetypeResonance(last.ritual.definition.required_archetypes, pre),
                      EnergyCoherence(state)),
                 IntegrationDepth(state))

\* a native run over two energies of different amplitude and two
\* integrations of different depth, with a required archetype present
C5_Witness ==
    /\ NativePath
    /\ last.ritual.definition.required_archetypes # <<>>
    /\ Range(last.ritual.definition.required_archetypes) \subseteq DOMAIN pre.archetypes
    /\ \E e1, e2 \in DOMAIN state.energies :
          state.energies[e1].amplitude # state.energies[e2].amplitude
    /\ \E i1, i2 \in DOMAIN state.integrations :
          state.integrations[i1].depth_level # state.integrations[i2].depth_level
    /\ state.energies # pre.energies

(***************************************************************************)
(* C6: every result returned by execute has resonance_level within [0,1],  *)
(* in every state reachable through the public operations.                 *)
(***************************************************************************)
C6_ResonanceInUnitInterval ==
    Returned => InUnit(last.out.result.resonance_level)

(***************************************************************************)
(* C7: complete_transformation(label) with label not in                    *)
(* active_transformations returns false and leaves the whole state         *)
(* unchanged, last_updated included.                                       *)
(***************************************************************************)
C7_AbsentLabelLeavesState ==
    (last.op = "complete_transformation" /\ last.label \notin Range(pre.active_transformations)) =>
        /\ last.ret = FALSE
        /\ state = pre

\* a failed completion, at a later time than the last update, with other
\* labels active
C7_Witness ==
    /\ last.op = "complete_transformation"
    /\ last.ret = FALSE
    /\ last.label \notin Range(pre.active_transformations)
    /\ pre.active_transformations # <<>>
    /\ clock > pre.last_updated
    /\ pre.evolution_cycle > 0

(***************************************************************************)
(* C8: evolution_cycle equals the number of complete_transformation calls  *)
(* that returned true, and each such call (those made by execute           *)
(* included) raises it by exactly one; no other operation changes it.      *)
(***************************************************************************)
RECURSIVE Total(_, _)
Total(f, S) ==
    IF S = {} THEN 0 ELSE LET k == CHOOSE x \in S : TRUE IN f[k] + Total(f, S \ {k})

C8_CycleCountsCompletions ==
    /\ state.evolution_cycle = Total(completed, AllLabels)
    /\ last.op \in {"complete_transformation", "execute"} =>
          state.evolution_cycle = pre.evolution_cycle + (IF last.ret THEN 1 ELSE 0)
    /\ last.op = "mutate" => state.evolution_cycle = pre.evolution_cycle

\* a ritual run completed its transformation on a state holding an invoked
\* archetype, an unresolved symbol and a transformation begun and not completed
C8_Witness ==
    /\ state.evolution_cycle >= 1
    /\ last.op = "execute"
    /\ last.ret = TRUE
    /\ state.active_transformations # <<>>
    /\ state.unresolved_symbols # <<>>
    /\ \E name \in DOMAIN state.archetypes : state.archetypes[name].evolution_count > 0
    /\ Total(begun, AllLabels) > Total(completed, AllLabels)

(***************************************************************************)
(* C9: for every label the complete_transformation calls that returned     *)
(* true never outnumber the begin_transformation calls; a completion       *)
(* returns true only while a begun occurrence is still in the list, so the *)
(* second of two completions after one begin returns false.                *)
(***************************************************************************)
C9_CompletionsWithinBegins ==
    /\ \A l \in AllLabels :
          /\ completed[l] <= begun[l]
          /\ Count(state.active_transformations, l) = begun[l] - completed[l]
    /\ last.op = "complete_transformation" =>
          (last.ret <=> Count(pre.active_transformations, last.label) > 0)

\* a completion returning false for a label begun once and completed once,
\* while another label was begun twice
C9_Witness ==
    /\ last.op = "complete_transformation"
    /\ last.ret = FALSE
    /\ begun[last.label] = 1
    /\ completed[last.label] = 1
    /\ \E l \in AllLabels : l # last.label /\ begun[l] = 2 /\ completed[l] = 1

(***************************************************************************)
(* C10: after any sequence of invoke calls, with intensities of either     *)
(* sign, every activation_level is within [0,1].                           *)
(***************************************************************************)
C10_ActivationInUnitInterval ==
    \A name \in DOMAIN state.archetypes : InUnit(state.archetypes[name].activation_level)

(***************************************************************************)
(* C11: after every Energy::modulate call on an energy whose amplitude was *)
(* within [0, 1], whatever the sign and size of the two shifts, the        *)
(* amplitude is within [0, 1] and is the previous amplitude plus           *)
(* amplitude_shift, brought back to 0 when below and to 1 when above.      *)
(***************************************************************************)
C11_AmplitudeClamped ==
    (last.op = "modulate" /\ InUnit(pre.energies[last.label].amplitude)) =>
        LET before == pre.energies[last.label].amplitude
            after == state.energies[last.label].amplitude
            sum == RAdd(before, last.args[2])
        IN  /\ InUnit(after)
            /\ RLt(sum, Zero) => after = Zero
            /\ RLt(One, sum) => after = One
            /\ InUnit(sum) => after = sum

\* a shift that would leave the amplitude below zero was clamped to zero
C11_Witness ==
    /\ last.op = "modulate"
    /\ pre.energies[last.label].amplitude = R(1, 2)
    /\ last.args[2] = R(-2, 1)
    /\ state.energies[last.label].amplitude = Zero
    /\ state.energies[last.label].frequency # pre.energies[last.label].frequency

(***************************************************************************)
(* C12: Integration::deepen(levels), for every levels of the 8-bit range   *)
(* and every depth_level within 1..10, never lowers depth_level and leaves *)
(* it within 1..10, also when depth_level + levels exceeds 255.            *)
(***************************************************************************)
C12_DeepenKeepsScale ==
    (last.op = "deepen" /\ pre.integrations[last.label].depth_level \in 1..10) =>
        LET before == pre.integrations[last.label].depth_level
            after == state.integrations[last.label].depth_level
        IN  /\ after >= before
            /\ after \in 1..10

(***************************************************************************)
(* C13: the shadow-integration handler, for every archetype with           *)
(* activation_level above 0.5 and a non-empty shadow list, takes exactly   *)
(* one aspect (the last) off the shadow list, appends it, marked as        *)
(* integrated, to the light list and logs exactly one Integration change   *)
(* of magnitude 0.7 for it; every other archetype keeps both lists and has *)
(* no change logged; two emergent symbols are emitted when at least one    *)
(* aspect was integrated and none otherwise.                               *)
(***************************************************************************)
RanHandler(name) ==
    /\ Executed
    /\ NativePath
    /\ last.ritual.definition.native_handler = name

ChangesOf(type) ==
    SelectSeq(last.out.result.state_changes, LAMBDA c : c.change_type = type)

Integrates(archetype) ==
    /\ RLt(R(1, 2), archetype.activation_level)
    /\ Len(archetype.shadow_aspects) > 0

C13_ShadowIntegration ==
    RanHandler("shadow_integration") =>
        LET integrated == {k \in DOMAIN pre.archetypes : Integrates(pre.archetypes[k])}
            logged(k) == SelectSeq(ChangesOf("Integration"),
                                   LAMBDA c : c.description[3] = k)
        IN  /\ \A k \in DOMAIN pre.archetypes :
                  LET before == pre.archetypes[k]
                      after == state.archetypes[k]
                      n == Len(before.shadow_aspects)
                  IN  IF k \in integrated
                      THEN /\ after.shadow_aspects = SubSeq(before.shadow_aspects, 1, n - 1)
                           /\ after.light_aspects =
                                  before.light_aspects
                                     \o <<"Integrated: " \o before.shadow_aspects[n]>>
                           /\ Len(logged(k)) = 1
                           /\ logged(k)[1].magnitude = R(7, 10)
                      ELSE /\ after.shadow_aspects = before.shadow_aspects
                           /\ after.light_aspects = before.light_aspects
                           /\ logged(k) = <<>>
            /\ Len(last.out.result.state_changes) = Cardinality(integrated)
            /\ Len(last.out.result.emergent_symbols) = IF integrated = {} THEN 0 ELSE 2

\* two archetypes integrated an aspect in one run
C13_Witness ==
    /\ RanHandler("shadow_integration")
    /\ Len(ChangesOf("Integration")) = 2
    /\ state.archetypes["Shadow"].shadow_aspects = <<"Pride">>
    /\ state.archetypes["Shadow"].light_aspects = <<"Integrated: Envy">>
    /\ state.archetypes["Sage"].shadow_aspects = <<>>
    /\ Len(last.out.result.emergent_symbols) = 2

(***************************************************************************)
(* C14: the energy-attunement handler moves the frequency of every energy  *)
(* more than 1.0 away from 7.83 by exactly 30% of the gap toward 7.83, so  *)
(* that the new frequency lies strictly between the old one and 7.83, and  *)
(* logs one EnergyShift change of magnitude 0.5 for it; an energy within   *)
(* 1.0 of 7.83 keeps its frequency and has no change logged.               *)
(***************************************************************************)
Schumann == R(783, 100)

StrictlyBetween(x, a, b) ==
    \/ RLt(a, x) /\ RLt(x, b)
    \/ RLt(b, x) /\ RLt(x, a)

C14_EnergyAttunement ==
    RanHandler("energy_attunement") =>
        LET gap(k) == RAbs(RSub(pre.energies[k].frequency, Schumann))
            moved == {k \in DOMAIN pre.energies : RLt(One, gap(k))}
            logged(k) == SelectSeq(ChangesOf("EnergyShift"),
                                   LAMBDA c : c.description[2] = k)
        IN  /\ \A k \in DOMAIN pre.energies :
                  LET old == pre.energies[k].frequency
                      new == state.energies[k].frequency
                  IN  IF k \in moved
                      THEN /\ RAbs(RSub(new, old)) = RMul(R(3, 10), gap(k))
                           /\ StrictlyBetween(new, old, Schumann)
                           /\ Len(logged(k)) = 1
                           /\ logged(k)[1].magnitude = R(1, 2)
                      ELSE /\ new = old
                           /\ logged(k) = <<>>
            /\ Len(last.out.result.state_changes) = Cardinality(moved)

\* one energy above and far from the target moved down, and the energy
\* exactly 1.0 from the target stayed
C14_Witness ==
    /\ RanHandler("energy_attunement")
    /\ DOMAIN pre.energies = {"Fire", "Water"}
    /\ pre.energies["Fire"].frequency = R(883, 100)
    /\ state.energies["Fire"].frequency = R(883, 100)
    /\ pre.energies["Water"].frequency = R(5, 1)
    /\ state.energies["Water"].frequency = R(5849, 1000)
    /\ Len(ChangesOf("EnergyShift")) = 1

(***************************************************************************)
(* C15: the void-contemplation handler sets every archetype's              *)
(* activation_level to 0.9 times its previous value and increases none,    *)
(* appends the void marker to unresolved_symbols exactly once, logs        *)
(* exactly one Transformation change of magnitude 0.8 and emits exactly    *)
(* three symbols.                                                          *)
(***************************************************************************)
C15_VoidContemplation ==
    RanHandler("void_contemplation") =>
        /\ \A k \in DOMAIN pre.archetypes :
              /\ state.archetypes[k].activation_level =
                    RMul(R(9, 10), pre.archetypes[k].activation_level)
              /\ RLe(state.archetypes[k].activation_level,
                     pre.archetypes[k].activation_level)
        /\ state.unresolved_symbols = Append(pre.unresolved_symbols, "void")
        /\ Len(last.out.result.state_changes) = 1
        /\ Len(ChangesOf("Transformation")) = 1
        /\ ChangesOf("Transformation")[1].magnitude = R(8, 10)
        /\ Len(last.out.result.emergent_symbols) = 3

(***************************************************************************)
(* C16 as stated: the archetype-invocation handler invokes every archetype *)
(* named in required_archetypes, so the number of ArchetypeActivation      *)
(* changes equals the length of required_archetypes; each invoked          *)
(* archetype has its activation raised by 0.3 capped at 1.0 and its        *)
(* evolution_count incremented, each change has magnitude 0.6, and two     *)
(* symbols are emitted in every run.                                       *)
(***************************************************************************)
Required == last.ritual.definition.required_archetypes

RECURSIVE Raised(_, _)
Raised(level, times) ==
    IF times = 0 THEN level
    ELSE LET sum == RAdd(Raised(level, times - 1), R(3, 10))
         IN  IF RLt(One, sum) THEN One ELSE sum

InvokedAsRequired ==
    /\ \A k \in DOMAIN pre.archetypes :
          LET times == Count(Required, k)
              logged == SelectSeq(ChangesOf("ArchetypeActivation"),
                                  LAMBDA c : c.description[2] = k)
          IN  /\ state.archetypes[k].activation_level =
                    Raised(pre.archetypes[k].activation_level, times)
              /\ state.archetypes[k].evolution_count =
                    pre.archetypes[k].evolution_count + times
              /\ Len(logged) = times
    /\ \A i \in DOMAIN last.out.result.state_changes :
          /\ last.out.result.state_changes[i].change_type = "ArchetypeActivation"
          /\ last.out.result.state_changes[i].magnitude = R(6, 10)
    /\ Len(last.out.result.emergent_symbols) = 2

C16_InvokesEveryRequired ==
    RanHandler("archetype_invocation") =>
        /\ InvokedAsRequired
        /\ Len(ChangesOf("ArchetypeActivation")) = Len(Required)

(***************************************************************************)
(* C16 amended: the handler invokes, once per entry, every entry of        *)
(* required_archetypes that names an archetype present in the state and    *)
(* skips the entries that name none: no archetype is created, and the      *)
(* number of ArchetypeActivation changes equals the number of entries      *)
(* naming a present archetype.                                             *)
(***************************************************************************)
C16_InvokesPresentRequired ==
    RanHandler("archetype_invocation") =>
        /\ InvokedAsRequired
        /\ DOMAIN state.archetypes = DOMAIN pre.archetypes
        /\ Len(ChangesOf("ArchetypeActivation")) =
              Cardinality({i \in DOMAIN Required : Required[i] \in DOMAIN pre.archetypes})

\* of two required archetypes one is absent and skipped, the other is
\* invoked and capped at 1.0
C16_Witness ==
    /\ RanHandler("archetype_invocation")
    /\ Required = <<"Shadow", "Sage">>
    /\ DOMAIN state.archetypes = {"Sage"}
    /\ pre.archetypes["Sage"].activation_level = R(4, 5)
    /\ state.archetypes["Sage"].activation_level = One
    /\ state.archetypes["Sage"].evolution_count = 1
    /\ Len(ChangesOf("ArchetypeActivation")) = 1

(***************************************************************************)
(* C17: with no sandbox module loaded, execute dispatches on               *)
(* native_handler.  Each of the four known names runs its own handler,     *)
(* recognised by what only that handler produces.  An absent or unknown    *)
(* name runs the generic handler: one symbol derived from the ritual name  *)
(* is appended to unresolved_symbols, the same symbol is the only one      *)
(* emitted, and exactly one SymbolResolution change of magnitude 0.4 is    *)
(* logged.  The run is not reported as an error.                           *)
(***************************************************************************)
KnownHandlers ==
    {"shadow_integration", "energy_attunement", "archetype_invocation", "void_contemplation"}

AllChangesOf(type) ==
    \A i \in DOMAIN last.out.result.state_changes :
        last.out.result.state_changes[i].change_type = type

C17_NativeDispatch ==
    (Executed /\ ~SandboxLoaded) =>
        LET handler == last.ritual.definition.native_handler
            result == last.out.result
            symbol == "lozenge:" \o last.ritual.definition.name
        IN  /\ last.out.kind = "Ok"
            /\ result.completion_status.tag # "Error"
            /\ handler = "shadow_integration" =>
                  /\ DOMAIN result.symbolic_outputs = {"shadows_integrated"}
                  /\ AllChangesOf("Integration")
            /\ handler = "energy_attunement" =>
                  /\ DOMAIN result.symbolic_outputs = {"energies_attuned"}
                  /\ AllChangesOf("EnergyShift")
            /\ handler = "archetype_invocation" =>
                  /\ result.emergent_symbols = <<"sacred_geometry", "archetypal_invocation">>
                  /\ AllChangesOf("ArchetypeActivation")
            /\ handler = "void_contemplation" =>
                  /\ result.emergent_symbols = <<"void", "emptiness", "infinity">>
                  /\ Len(ChangesOf("Transformation")) = 1
            /\ handler \notin KnownHandlers =>
                  /\ state.unresolved_symbols = Append(pre.unresolved_symbols, symbol)
                  /\ result.emergent_symbols = <<symbol>>
                  /\ Len(result.state_changes) = 1
                  /\ Len(ChangesOf("SymbolResolution")) = 1
                  /\ ChangesOf("SymbolResolution")[1].magnitude = R(4, 10)
                  /\ DOMAIN result.symbolic_outputs = {}

\* a handler name that matches none of the known ones ran the generic handler
C17_Witness ==
    /\ Executed
    /\ ~SandboxLoaded
    /\ last.ritual.definition.native_handler = "unknown_handler"
    /\ last.out.kind = "Ok"
    /\ state.unresolved_symbols = <<"lozenge:r1">>
    /\ last.out.result.emergent_symbols = <<"lozenge:r1">>
    /\ Len(ChangesOf("SymbolResolution")) = 1

(***************************************************************************)
(* C18 as stated: from_symbolic_state followed by to_symbolic_state        *)
(* reproduces identical archetype, energy and integration maps (the same   *)
(* keys and, per entry, the same activation level, aspect lists,           *)
(* frequency, amplitude and depth level) and identical unresolved-symbol   *)
(* and active-transformation lists.                                        *)
(***************************************************************************)
SameKeysLevelsAndLists ==
    /\ DOMAIN state.archetypes = DOMAIN pre.archetypes
    /\ DOMAIN state.energies = DOMAIN pre.energies
    /\ DOMAIN state.integrations = DOMAIN pre.integrations
    /\ \A k \in DOMAIN pre.archetypes :
          state.archetypes[k].activation_level = pre.archetypes[k].activation_level
    /\ \A k \in DOMAIN pre.energies :
          state.energies[k].amplitude = pre.energies[k].amplitude
    /\ state.unresolved_symbols = pre.unresolved_symbols
    /\ state.active_transformations = pre.active_transformations

C18_RoundTripIdentical ==
    last.op = "to_symbolic_state" =>
        /\ SameKeysLevelsAndLists
        /\ \A k \in DOMAIN pre.archetypes :
              /\ state.archetypes[k].shadow_aspects = pre.archetypes[k].shadow_aspects
              /\ state.archetypes[k].light_aspects = pre.archetypes[k].light_aspects
        /\ \A k \in DOMAIN pre.energies :
              state.energies[k].frequency = pre.energies[k].frequency
        /\ \A k \in DOMAIN pre.integrations :
              state.integrations[k].depth_level = pre.integrations[k].depth_level

(***************************************************************************)
(* C18 amended: the round trip reproduces the keys of the three maps, the  *)
(* activation level of every archetype, the amplitude of every energy and  *)
(* the two lists; every entry is otherwise as its constructor makes it:    *)
(* no shadow or light aspects, evolution count 0, frequency 440.0 and      *)
(* depth level 1.                                                          *)
(***************************************************************************)
C18_RoundTripSimplified ==
    last.op = "to_symbolic_state" =>
        /\ SameKeysLevelsAndLists
        /\ \A k \in DOMAIN state.archetypes :
              /\ state.archetypes[k].shadow_aspects = <<>>
              /\ state.archetypes[k].light_aspects = <<>>
              /\ state.archetypes[k].evolution_count = 0
        /\ \A k \in DOMAIN state.energies :
              state.energies[k].frequency = R(440, 1)
        /\ \A k \in DOMAIN state.integrations :
              state.integrations[k].depth_level = 1

\* a state with shadow aspects, two energies, integrations of depth 3 and
\* 10, symbols and transformations went through the round trip
C18_Witness ==
    /\ last.op = "to_symbolic_state"
    /\ DOMAIN pre.archetypes = {"Sage", "Shadow"}
    /\ pre.archetypes["Shadow"].shadow_aspects = <<"Pride", "Envy">>
    /\ state.archetypes["Shadow"].activation_level = R(3, 5)
    /\ DOMAIN pre.energies = {"Fire", "Water"}
    /\ pre.energies["Water"].frequency = R(5, 1)
    /\ state.energies["Water"].amplitude = R(3, 5)
    /\ DOMAIN state.integrations = {"Insight", "Vision"}
    /\ pre.integrations["Vision"].depth_level = 10
    /\ state.unresolved_symbols = <<"void", "infinity">>
    /\ Len(state.active_transformations) = 3

(***************************************************************************)
(* C19: for two execute_ritual requests of one practitioner that overlap,  *)
(* under every interleaving of their load, execute and store steps, the    *)
(* state stored after both have finished reflects the effects of both      *)
(* rituals: it is the state that running the two rituals one after the     *)
(* other, in one of the two orders, leaves from the state the first        *)
(* request found.                                                          *)
(***************************************************************************)
RunOn(archetypal, record) ==
    LET symbolic == convert_archetypal_to_symbolic(archetypal, 0)
        orders == CHOOSE o \in IterOrders(RitualOf(record), symbolic) : TRUE
    IN  convert_symbolic_to_archetypal(
            execute(RitualOf(record), symbolic, orders[1], orders[2], 0).state)

BothFinished == \A r \in RequestIds : requests[r].pc = "done"

C19_BothRitualsReflected ==
    BothFinished =>
        \E first \in RequestIds : \E second \in RequestIds \ {first} :
            db[Len(db)] = RunOn(RunOn(db[1], requests[first].record),
                                requests[second].record)

(***************************************************************************)
(* C20: every call of Ritual::execute eventually returns, also when the    *)
(* sandboxed module's execute_ritual never terminates: a request that is   *)
(* inside its call of execute eventually has the call's result, Ok or Err. *)
(***************************************************************************)
C20_ExecuteReturns ==
    \A r \in RequestIds :
        (requests[r].pc = "in_execute") ~> (requests[r].pc \in {"executed", "failed"})

(***************************************************************************)
(* C21: when a ritual's sandbox module cannot be loaded (unreadable file   *)
(* or malformed bytes), CodexEngine::execute_ritual recovers by running    *)
(* the native handler: the caller receives Ok(result) and the state is     *)
(* the one the native run leaves.                                          *)
(***************************************************************************)
LoadFailed ==
    /\ last.op = "execute_ritual"
    /\ last.label \in DOMAIN CustomRegistry
    /\ LET module_path == CustomRegistry[last.label].wasm_module_path
       IN  /\ module_path # NoPath
           /\ (module_path \in DOMAIN ModuleFiles => ModuleFiles[module_path] = Malformed)

C21_LoadFailureFallsBack ==
    LoadFailed =>
        \E native \in NativeOutcomes(CustomRegistry[last.label], pre, clock) :
            /\ last.out.kind = "Ok"
            /\ last.out.result = native.result
            /\ state = native.state

(***************************************************************************)
(* C22: every state mutation a sandboxed module requests through the host  *)
(* functions is applied to the state execute was called on: after the run  *)
(* of a module that calls set_archetype_activation(name, level),           *)
(* set_energy_amplitude(name, amplitude) and add_symbol(symbol), the       *)
(* archetype's activation and the energy's amplitude are the requested     *)
(* values clamped to [0,1] and the symbol is among the unresolved symbols. *)
(***************************************************************************)
Clamped(x) == IF RLt(x, Zero) THEN Zero ELSE IF RLt(One, x) THEN One ELSE x

Applied(call, s) ==
    CASE call.function = "set_archetype_activation" ->
            call.name \in DOMAIN s.archetypes =>
                s.archetypes[call.name].activation_level = Clamped(call.value)
      [] call.function = "set_energy_amplitude" ->
            call.name \in DOMAIN s.energies =>
                s.energies[call.name].amplitude = Clamped(call.value)
      [] call.function = "add_symbol" ->
            call.name \in Range(s.unresolved_symbols)

C22_HostCallsApplied ==
    (Executed /\ last.ritual.wasm_module = HostModule) =>
        \A i \in 1..Len(HostCalls) : Applied(HostCalls[i], state)

(***************************************************************************)
(* C23: when the module's execute_ritual returns a non-zero code, the      *)
(* result's completion_status is not Complete; only code 0 can yield       *)
(* Complete.                                                               *)
(***************************************************************************)
ReturnedCode(code) ==
    /\ Returned
    /\ last.ritual.wasm_module.kind = "returns"
    /\ last.ritual.wasm_module.code = code

C23_NonZeroCodeNotComplete ==
    \A code \in 1..3 :
        ReturnedCode(code) => last.out.result.completion_status.tag # "Complete"

(***************************************************************************)
(* C24: the HTTP execute_ritual path preserves what the ritual did not     *)
(* touch when it converts the stored ArchetypalState to a SymbolicState    *)
(* and back: every row stored after a ritual has the integrations and      *)
(* transformations lists of the row it was computed from, and no archetype *)
(* or energy entry that row lacked.  No ritual of the catalog creates an   *)
(* entry or touches these lists, and every row after the first is computed *)
(* from an earlier row.                                                    *)
(***************************************************************************)
PreservedFrom(before, after) ==
    /\ after.integrations = before.integrations
    /\ after.transformations = before.transformations
    /\ DOMAIN after.archetypes \subseteq DOMAIN before.archetypes
    /\ DOMAIN after.energies \subseteq DOMAIN before.energies

LiftingRun ==
    /\ RanHandler("archetype_invocation")
    /\ RLt(ArchetypeResonance(last.ritual.definition.required_archetypes, pre), R(3, 10))
    /\ RLe(R(3, 10), ArchetypeResonance(last.ritual.definition.required_archetypes, state))

ScoredOnMeanBefore ==
    /\ last.out.result.completion_status.tag = "PartialIntegration"
    /\ last.out.result.resonance_level =
          RMul(RAdd(RAdd(ArchetypeResonance(last.ritual.definition.required_archetypes, pre),
                         EnergyCoherence(state)),
                    IntegrationDepth(state)),
               R(1, 3))

\* the next run is the same ritual executed on the state this run left
NextRunComplete ==
    \A next \in NativeOutcomes(last.ritual.definition, state, clock) :
        /\ next.kind = "Ok"
        /\ next.result.completion_status.tag = "Complete"

C26_MeasuredBeforeHandler ==
    LiftingRun => (ScoredOnMeanBefore /\ NextRunComplete)

\* the second of two runs: Sage, lifted from 0.0 to 0.3 by the first run,
\* is found at 0.3 and the run is Complete
C26_Witness ==
    /\ RanHandler("archetype_invocation")
    /\ last.ritual.definition.required_archetypes = <<"Sage">>
    /\ "Sage" \in DOMAIN pre.archetypes
    /\ pre.archetypes["Sage"].activation_level = R(3, 10)
    /\ pre.archetypes["Sage"].evolution_count = 1
    /\ begun[last.label] = 2
    /\ last.out.result.completion_status.tag = "Complete"

(***************************************************************************)
(* C27: in a CodexEngine started from the primordial state on which only   *)
(* the four foundational rituals are run, in any order and any number of   *)
(* times, the activation of Sage and of Shadow stays 0.0 in every          *)
(* reachable state, no run of shadow_integration, energy_attunement or     *)
(* void_contemplation ends with completion_status Complete, and            *)
(* shadow_integration never integrates an aspect.                          *)
(***************************************************************************)
EngineRan(ritual_name) ==
    /\ last.op = "execute_ritual"
    /\ last.label = ritual_name

C27_SageAndShadowStayDormant ==
    /\ state.archetypes["Sage"].activation_level = Zero
    /\ state.archetypes["Shadow"].activation_level = Zero
    /\ \A ritual_name \in {"shadow_integration", "energy_attunement", "void_contemplation"} :
          EngineRan(ritual_name) =>
              /\ last.out.kind = "Ok"
              /\ last.out.result.completion_status.tag = "PartialIntegration"
    /\ EngineRan("shadow_integration") =>
          /\ last.out.result.state_changes = <<>>
          /\ \A k \in DOMAIN state.archetypes :
                /\ state.archetypes[k].shadow_aspects = <<>>
                /\ state.archetypes[k].light_aspects = <<>>

\* the fourth run of an engine that has run all four rituals: Creator has
\* been invoked, and the void contemplation that ends the sequence is partial
C27_Witness ==
    /\ EngineRan("void_contemplation")
    /\ state.evolution_cycle = 4
    /\ \A ritual_name \in FoundationalNames : begun[Label(ritual_name)] = 1
    /\ RLt(Zero, state.archetypes["Creator"].activation_level)
    /\ state.archetypes["Sage"].activation_level = Zero
    /\ last.out.result.completion_status.tag = "PartialIntegration"

(***************************************************************************)
(* C28: the outcome of execute does not depend on the definition's         *)
(* energy_requirements, description, intent or parameters: a definition    *)
(* and the definition that agrees with it on name, required_archetypes and *)
(* native_handler and has the four fields empty, run on equal states, give *)
(* equal post-states, equal completion_status and equal resonance_level,   *)
(* and both return or both fail.                                           *)
(***************************************************************************)
Bare(ritual) ==
    [ritual EXCEPT !.definition.description = "",
                   !.definition.intent = "",
                   !.definition.energy_requirements = EmptyMap,
                   !.definition.parameters = EmptyMap]

OutcomesOf(ritual, s, now) ==
    {execute(ritual, s, orders[1], orders[2], now) :
        orders \in Orders(DOMAIN s.archetypes) \X Orders(DOMAIN s.energies)}

C28_OutcomeIgnoresOtherFields ==
    Executed =>
        \A bare \in OutcomesOf(Bare(last.ritual), pre, clock) :
            /\ bare.kind = last.out.kind
            /\ bare.state = state
            /\ bare.result.completion_status = last.out.result.completion_status
            /\ bare.result.resonance_level = last.out.result.resonance_level

\* a ritual that requires Fire at amplitude 0.9 ran to Complete on a state
\* whose Fire has amplitude 0.7
C28_Witness ==
    /\ RanHandler("energy_attunement")
    /\ Bare(last.ritual) # last.ritual
    /\ last.ritual.definition.energy_requirements["Fire"] = R(9, 10)
    /\ "Fire" \in DOMAIN pre.energies
    /\ pre.energies["Fire"].amplitude = R(7, 10)
    /\ last.out.result.completion_status.tag = "Complete"
    /\ state # pre

(***************************************************************************)
(* C29: each native handler changes only its own part of the state.        *)
(* shadow_integration changes only shadow and light aspect lists, and no   *)
(* activation level, energy or symbol list; energy_attunement changes no   *)
(* archetype, integration or symbol list and no energy whose frequency is  *)
(* within 1.0 of 7.83; archetype_invocation changes only archetypes named  *)
(* in required_archetypes and creates none; void_contemplation changes     *)
(* only activation levels and unresolved_symbols; the generic handler      *)
(* changes only unresolved_symbols; none of them changes integrations or   *)
(* active_transformations.                                                 *)
(***************************************************************************)
SameArchetypeKeys == DOMAIN state.archetypes = DOMAIN pre.archetypes
SameArchetypes == state.archetypes = pre.archetypes
SameEnergies == state.energies = pre.energies
SameSymbols == state.unresolved_symbols = pre.unresolved_symbols

\* the archetypes differ at most in the given fields
ArchetypesDifferOnlyIn(aspects, levels) ==
    /\ SameArchetypeKeys
    /\ \A k \in DOMAIN pre.archetypes :
          LET old == pre.archetypes[k]
              new == state.archetypes[k]
          IN  /\ new.name = old.name
              /\ new.evolution_count = old.evolution_count
              /\ aspects \/ (/\ new.shadow_aspects = old.shadow_aspects
                             /\ new.light_aspects = old.light_aspects)
              /\ levels \/ new.activation_level = old.activation_level

C29_HandlerFrames ==
    (Executed /\ NativePath) =>
        LET handler == last.ritual.definition.native_handler
        IN  /\ state.integrations = pre.integrations
            /\ state.active_transformations = pre.active_transformations
            /\ handler = "shadow_integration" =>
                  /\ ArchetypesDifferOnlyIn(TRUE, FALSE)
                  /\ SameEnergies
                  /\ SameSymbols
            /\ handler = "energy_attunement" =>
                  /\ SameArchetypes
                  /\ SameSymbols
                  /\ DOMAIN state.energies = DOMAIN pre.energies
                  /\ \A k \in DOMAIN pre.energies :
                        RLe(RAbs(RSub(pre.energies[k].frequency, Schumann)), One)
                            => state.energies[k] = pre.energies[k]
            /\ handler = "archetype_invocation" =>
                  /\ SameArchetypeKeys
                  /\ \A k \in DOMAIN pre.archetypes :
                        k \notin Range(last.ritual.definition.required_archetypes)
                            => state.archetypes[k] = pre.archetypes[k]
                  /\ SameEnergies
                  /\ SameSymbols
            /\ handler = "void_contemplation" =>
                  /\ ArchetypesDifferOnlyIn(FALSE, TRUE)
                  /\ SameEnergies
            /\ handler \notin KnownHandlers =>
                  /\ SameArchetypes
                  /\ SameEnergies

\* a void contemplation of Sage (0.8, one shadow aspect) beside two
\* energies and two integrations: Sage's level fell and the rest stayed
C29_Witness ==
    /\ RanHandler("void_contemplation")
    /\ "Sage" \in DOMAIN pre.archetypes
    /\ pre.archetypes["Sage"].shadow_aspects = <<"Doubt">>
    /\ state.archetypes["Sage"].activation_level = R(18, 25)
    /\ DOMAIN pre.energies = {"Fire", "Water"}
    /\ DOMAIN pre.integrations = {"Insight", "Vision"}
    /\ state.unresolved_symbols # pre.unresolved_symbols

(***************************************************************************)
(* C30: running the energy-attunement handler repeatedly reaches a fixed   *)
(* point after finitely many runs.  RunsLeft counts, for one energy, the   *)
(* runs that bring a gap to 1.0 or less when each run leaves 0.7 of it.    *)
(* Every run in which some energy is more than 1.0 from 7.83 lowers the    *)
(* RunsLeft of each such energy by one; once every energy is within 1.0 of *)
(* 7.83 a run changes no energy, logs no EnergyShift and emits no symbol.  *)
(***************************************************************************)
RECURSIVE RunsLeft(_)
RunsLeft(gap) ==
    IF RLe(gap, One) THEN 0 ELSE 1 + RunsLeft(RMul(gap, R(7, 10)))

Gap(energy) == RAbs(RSub(energy.frequency, Schumann))

C30_AttunementReachesFixedPoint ==
    EngineRan("energy_attunement") =>
        /\ last.out.kind = "Ok"
        /\ DOMAIN state.energies = DOMAIN pre.energies
        /\ \A k \in DOMAIN pre.energies :
              IF RunsLeft(Gap(pre.energies[k])) > 0
              THEN RunsLeft(Gap(state.energies[k])) = RunsLeft(Gap(pre.energies[k])) - 1
              ELSE state.energies[k] = pre.energies[k]
        /\ (\A k \in DOMAIN pre.energies : RunsLeft(Gap(pre.energies[k])) = 0) =>
              /\ \A k \in DOMAIN state.energies : RLe(Gap(state.energies[k]), One)
              /\ ChangesOf("EnergyShift") = <<>>
              /\ last.out.result.emergent_symbols = <<>>

\* the fourth run on Fire loaded at 10.0: three runs have brought it to
\* 8.57431, and the fourth finds every energy within 1.0 and changes nothing
C30_Witness ==
    /\ EngineRan("energy_attunement")
    /\ state.evolution_cycle = 4
    /\ pre.energies["Fire"].frequency = R(857431, 100000)
    /\ \A k \in DOMAIN pre.energies : RLe(Gap(pre.energies[k]), One)
    /\ state.energies = pre.energies
    /\ last.out.result.state_changes = <<>>
    /\ last.out.result.emergent_symbols = <<>>

====
